---- MODULE Spec2Model ----
(***************************************************************************)
(* Model of localgpt's providers (src/agent/providers.rs): the subprocess  *)
(* provider ClaudeCliProvider, the provider selector, the LLMProvider      *)
(* trait's methods and the streaming adapter; and of the session store     *)
(* (sessions.json, src/agent/session_store.rs).                            *)
(*                                                                         *)
(* Spec      : one provider instance, two concurrent callers of chat and   *)
(*             clear_session, the token slot behind its mutex, the session *)
(*             file, the subprocess and its outputs. The clock stands.     *)
(* SpecStore : the SessionStore API on store instances over one file,      *)
(*             with the clock moving.                                      *)
(* SpecPoison: Spec's provider with lock holders that can panic.           *)
(* SpecSelect: create_provider on a model identifier and a configuration.  *)
(* SpecCall  : the trait's provided chat_stream, and the four summarize.   *)
(* SpecStream: OllamaProvider::chat_stream on a response body that arrives *)
(*             in network chunks.                                          *)
(***************************************************************************)
EXTENDS Integers, Sequences, FiniteSets, TLC

VARIABLES
  file,      \* sessions.json on disk: [kind, doc]
  now,       \* chrono::Utc::now().timestamp_millis()
  slot,      \* ClaudeCliProvider.cli_session_id: the value inside the mutex
  lock,      \* holder of the cli_session_id mutex, or Free, or Poisoned
  localId,   \* ClaudeCliProvider.localgpt_session_id
  uuids,     \* number of uuid::Uuid::new_v4() values drawn so far
  pc,        \* per caller: where it is inside chat / clear_session
  loc,       \* per caller: the locals of the running call
  hist,      \* what the provider did, in order: invocations and returns (MaxHist)
  stores,    \* SpecStore: the in-memory SessionStore instances
  nops,      \* SpecStore: number of steps made (bounded by MaxStoreOps)
  sel,       \* SpecSelect: the selector's inputs and the providers it made of them
  call,      \* SpecCall: a call of a provided trait method and what it gave
  stream     \* SpecStream: OllamaProvider::chat_stream's response stream

vars == <<file, now, slot, lock, localId, uuids, pc, loc, hist, stores, nops,
          sel, call, stream>>

(***************************************************************************)
(* Bounds                                                                  *)
(***************************************************************************)
MaxHist == 4
MaxStoreOps == 4

(***************************************************************************)
(* Option<T>                                                               *)
(***************************************************************************)
None == <<>>
Some(x) == <<x>>
IsSome(o) == o # None
Unwrap(o) == o[1]

(***************************************************************************)
(* Values                                                                  *)
(***************************************************************************)
CLAUDE_CLI_PROVIDER == "claude-cli"
MainKey == "main"
Keys == {"main", "side"}
Providers == {"claude-cli", "codex-cli"}
Tokens == {"", "t1", "t2"}
Uuids == <<"u1", "u2", "u3", "u4", "u5", "u6", "u7", "u8", "u9", "u10", "u11", "u12">>
NewUuid(n) == Uuids[n + 1]

(***************************************************************************)
(* SessionEntry                                                            *)
(***************************************************************************)
EmptyMap == [p \in {} |-> ""]

SessionEntryNew(session_id, t) ==
  [session_id |-> session_id, updated_at |-> t,
   cli_session_ids |-> EmptyMap, claude_cli_session_id |-> None]

EntryGetCliSessionId(e, provider) ==
  IF provider \in DOMAIN e.cli_session_ids /\ e.cli_session_ids[provider] # ""
  THEN Some(e.cli_session_ids[provider])
  ELSE IF provider = "claude-cli" /\ IsSome(e.claude_cli_session_id)
          /\ Unwrap(e.claude_cli_session_id) # ""
       THEN e.claude_cli_session_id
       ELSE None

MapInsert(m, k, v) == [x \in DOMAIN m \cup {k} |-> IF x = k THEN v ELSE m[x]]
MapRemove(m, k) == [x \in DOMAIN m \ {k} |-> m[x]]

\* Mutant: every provider's token is mirrored into the legacy field
EntrySetCliSessionId_MirrorAll(e, provider, sid, t) ==
  [e EXCEPT !.cli_session_ids = MapInsert(@, provider, sid),
            !.claude_cli_session_id = Some(sid),
            !.updated_at = t]

EntrySetCliSessionId(e, provider, sid, t) ==
  [e EXCEPT !.cli_session_ids = MapInsert(@, provider, sid),
            !.claude_cli_session_id = IF provider = "claude-cli" THEN Some(sid) ELSE @,
            !.updated_at = t]

(***************************************************************************)
(* The file: serde's view of HashMap<String, SessionEntry>                 *)
(***************************************************************************)
Missing == [kind |-> "missing", doc |-> <<>>]
Garbage == [kind |-> "garbage", doc |-> <<>>]
Unreadable == [kind |-> "unreadable", doc |-> <<>>]
JsonFile(doc) == [kind |-> "json", doc |-> doc]

\* #[serde(rename_all = "camelCase")], skip_serializing_if on the optional fields
SerializeEntry(e) ==
  LET names == {"sessionId", "updatedAt"}
               \cup (IF DOMAIN e.cli_session_ids = {} THEN {} ELSE {"cliSessionIds"})
               \cup (IF IsSome(e.claude_cli_session_id) THEN {"claudeCliSessionId"} ELSE {})
  IN [f \in names |->
        CASE f = "sessionId" -> e.session_id
          [] f = "updatedAt" -> e.updated_at
          [] f = "cliSessionIds" -> e.cli_session_ids
          [] OTHER -> Unwrap(e.claude_cli_session_id)]

Serialize(entries) == [k \in DOMAIN entries |-> SerializeEntry(entries[k])]

\* sessionId and updatedAt have no serde default: an object without them is an error
EntryParses(o) == {"sessionId", "updatedAt"} \subseteq DOMAIN o

\* Mutant: the per-provider map is read under its snake_case name
DeserializeEntry_SnakeCase(o) ==
  [session_id |-> o["sessionId"], updated_at |-> o["updatedAt"],
   cli_session_ids |-> IF "cli_session_ids" \in DOMAIN o THEN o["cli_session_ids"] ELSE EmptyMap,
   claude_cli_session_id |->
     IF "claudeCliSessionId" \in DOMAIN o THEN Some(o["claudeCliSessionId"]) ELSE None]

DeserializeEntry(o) ==
  [session_id |-> o["sessionId"], updated_at |-> o["updatedAt"],
   cli_session_ids |-> IF "cliSessionIds" \in DOMAIN o THEN o["cliSessionIds"] ELSE EmptyMap,
   claude_cli_session_id |->
     IF "claudeCliSessionId" \in DOMAIN o THEN Some(o["claudeCliSessionId"]) ELSE None]

NoEntries == [k \in {} |-> 0]

\* serde_json::from_str(&content).unwrap_or_default()
FromStr(f) ==
  IF f.kind = "json" /\ \A k \in DOMAIN f.doc : EntryParses(f.doc[k])
  THEN [k \in DOMAIN f.doc |-> DeserializeEntry(f.doc[k])]
  ELSE NoEntries

(***************************************************************************)
(* SessionStore                                                            *)
(***************************************************************************)
IoOutcomes == {"ok", "write_err", "write_torn"}

\* Mutant: content that does not parse is an error (no unwrap_or_default)
Load_StrictParse(f) ==
  IF f.kind \in {"unreadable", "garbage"} THEN [ok |-> FALSE, entries |-> NoEntries]
  ELSE [ok |-> TRUE, entries |-> FromStr(f)]

\* SessionStore::load_for_agent: a missing or unparseable file is an empty map,
\* a file that exists and cannot be read is an error
Load(f) ==
  IF f.kind = "unreadable" THEN [ok |-> FALSE, entries |-> NoEntries]
  ELSE [ok |-> TRUE, entries |-> FromStr(f)]

\* Mutant: the entries of the file that the map lacks are kept
Save_MergeWithFile(entries, f, io) ==
  CASE io = "write_err" -> [ok |-> FALSE, file |-> f]
    [] io = "write_torn" -> [ok |-> FALSE, file |-> Garbage]
    [] OTHER ->
         [ok |-> TRUE,
          file |-> JsonFile(Serialize([k \in DOMAIN entries \cup DOMAIN FromStr(f) |->
                                         IF k \in DOMAIN entries THEN entries[k]
                                         ELSE FromStr(f)[k]]))]

\* SessionStore::save: the whole map is written over the file
Save(entries, f, io) ==
  CASE io = "write_err" -> [ok |-> FALSE, file |-> f]
    [] io = "write_torn" -> [ok |-> FALSE, file |-> Garbage]
    [] OTHER -> [ok |-> TRUE, file |-> JsonFile(Serialize(entries))]

GetOrCreate(entries, key, session_id, t) ==
  IF key \in DOMAIN entries THEN entries
  ELSE [k \in DOMAIN entries \cup {key} |->
          IF k = key THEN SessionEntryNew(session_id, t) ELSE entries[k]]

\* Mutant: the legacy field is left as it is
ClearMutator_MapOnly(e, provider) ==
  [e EXCEPT !.cli_session_ids = MapRemove(@, provider)]

\* the closure clear_cli_session_from_store passes to update
ClearMutator(e, provider) ==
  [e EXCEPT !.cli_session_ids = MapRemove(@, provider),
            !.claude_cli_session_id = IF provider = "claude-cli" THEN None ELSE @]

\* The closures handed to update, as data: [op, provider, sid]
SetClosure(provider, sid) == [op |-> "set", provider |-> provider, sid |-> sid]
ClearClosure(provider) == [op |-> "clear", provider |-> provider, sid |-> ""]
Apply(f, e, t) ==
  CASE f.op = "set" -> EntrySetCliSessionId(e, f.provider, f.sid, t)
    [] f.op = "clear" -> ClearMutator(e, f.provider)
    [] OTHER -> e

\* Mutant: the entry is stamped in seconds (timestamp()), not in milliseconds
Update_StampSeconds(entries, key, session_id, f, t) ==
  LET created == GetOrCreate(entries, key, session_id, t)
  IN [created EXCEPT ![key] = [Apply(f, created[key], t) EXCEPT !.updated_at = t \div 1000]]

\* SessionStore::update without its final save(): the map after the mutation
Update(entries, key, session_id, f, t) ==
  LET created == GetOrCreate(entries, key, session_id, t)
  IN [created EXCEPT ![key] = [Apply(f, created[key], t) EXCEPT !.updated_at = t]]

StoreGetCliSessionId(entries, key, provider) ==
  IF key \in DOMAIN entries THEN EntryGetCliSessionId(entries[key], provider) ELSE None

StoreSetCliSessionId(entries, key, session_id, provider, cli_session_id, t) ==
  Update(entries, key, session_id, SetClosure(provider, cli_session_id), t)

(***************************************************************************)
(* The provider's three store helpers: each loads a store of its own.      *)
(***************************************************************************)
\* Mutant: only the per-provider map is looked at, not the legacy field
load_cli_session_map_only(f, key, provider) ==
  LET l == Load(f)
  IN IF l.ok /\ key \in DOMAIN l.entries /\ provider \in DOMAIN l.entries[key].cli_session_ids
        /\ l.entries[key].cli_session_ids[provider] # ""
     THEN Some(l.entries[key].cli_session_ids[provider]) ELSE None

load_cli_session_from_store(f, key, provider) ==
  LET l == Load(f)
  IN IF l.ok THEN StoreGetCliSessionId(l.entries, key, provider) ELSE None

save_cli_session_to_store(f, key, session_id, provider, cli_session_id, t, io) ==
  LET l == Load(f)
  IN IF ~l.ok THEN [ok |-> FALSE, file |-> f]
     ELSE Save(StoreSetCliSessionId(l.entries, key, session_id, provider, cli_session_id, t),
               f, io)

\* Mutant: clearing a session key that has no entry is an error
clear_cli_session_requires_entry(f, key, provider, t, io) ==
  LET l == Load(f)
  IN IF ~l.ok \/ key \notin DOMAIN l.entries THEN [ok |-> FALSE, file |-> f]
     ELSE Save(Update(l.entries, key, "", ClearClosure(provider), t), f, io)

clear_cli_session_from_store(f, key, provider, t, io) ==
  LET l == Load(f)
  IN IF ~l.ok THEN [ok |-> FALSE, file |-> f]
     ELSE Save(Update(l.entries, key, "", ClearClosure(provider), t), f, io)

(***************************************************************************)
(* Messages, the argument list, the subprocess output                      *)
(***************************************************************************)
Msg(role, content) == [role |-> role, content |-> content]

\* The conversations the callers of Spec send
ChatInputs ==
  { <<Msg("user", "hi")>>,
    <<Msg("system", "be brief"), Msg("user", "q1"), Msg("assistant", "r1"),
      Msg("system", "ignored"), Msg("user", "q2")>> }

SetMax(S) == CHOOSE x \in S : \A y \in S : y <= x
SetMin(S) == CHOOSE x \in S : \A y \in S : x <= y

build_prompt_from_messages(messages) ==
  LET users == {i \in DOMAIN messages : messages[i].role = "user"}
  IN IF users = {} THEN "" ELSE messages[SetMax(users)].content

extract_system_prompt(messages) ==
  LET systems == {i \in DOMAIN messages : messages[i].role = "system"}
  IN IF systems = {} THEN None ELSE Some(messages[SetMin(systems)].content)

\* str::to_lowercase on the names the model uses
ToLower(s) ==
  CASE s = "Opus" -> "opus"
    [] s = "OPUS" -> "opus"
    [] s = "Opus-4.5" -> "opus-4.5"
    [] s = "OPUS-4.5" -> "opus-4.5"
    [] s = "Opus-4" -> "opus-4"
    [] s = "OPUS-4" -> "opus-4"
    [] s = "Claude-opus-4-5" -> "claude-opus-4-5"
    [] s = "CLAUDE-OPUS-4-5" -> "claude-opus-4-5"
    [] s = "Claude-Opus-4-5" -> "claude-opus-4-5"
    [] s = "Sonnet" -> "sonnet"
    [] s = "SONNET" -> "sonnet"
    [] s = "Sonnet-4.5" -> "sonnet-4.5"
    [] s = "SONNET-4.5" -> "sonnet-4.5"
    [] s = "Sonnet-4.1" -> "sonnet-4.1"
    [] s = "SONNET-4.1" -> "sonnet-4.1"
    [] s = "Claude-sonnet-4-5" -> "claude-sonnet-4-5"
    [] s = "CLAUDE-SONNET-4-5" -> "claude-sonnet-4-5"
    [] s = "Claude-Sonnet-4-5" -> "claude-sonnet-4-5"
    [] s = "Haiku" -> "haiku"
    [] s = "HAIKU" -> "haiku"
    [] s = "Haiku-3.5" -> "haiku-3.5"
    [] s = "HAIKU-3.5" -> "haiku-3.5"
    [] s = "Claude-haiku-3-5" -> "claude-haiku-3-5"
    [] s = "CLAUDE-HAIKU-3-5" -> "claude-haiku-3-5"
    [] s = "Claude-Haiku-3-5" -> "claude-haiku-3-5"
    [] s = "Llama3" -> "llama3"
    [] s = "LLAMA3" -> "llama3"
    [] s = "Gpt-4" -> "gpt-4"
    [] s = "GPT-4" -> "gpt-4"
    [] s = "Opus-5" -> "opus-5"
    [] s = "OPUS-5" -> "opus-5"
    [] s = "Claude-opus" -> "claude-opus"
    [] s = "CLAUDE-OPUS" -> "claude-opus"
    [] s = "Claude-Opus" -> "claude-opus"
    [] s = "My-sonnet" -> "my-sonnet"
    [] s = "MY-SONNET" -> "my-sonnet"
    [] s = "My-Sonnet" -> "my-sonnet"
    [] OTHER -> s

\* Mutant: the name is matched as given and returned as given
normalize_claude_model_CaseSensitive(model) ==
  CASE model \in {"opus", "opus-4.5", "opus-4", "claude-opus-4-5"} -> "opus"
    [] model \in {"sonnet", "sonnet-4.5", "sonnet-4.1", "claude-sonnet-4-5"} -> "sonnet"
    [] model \in {"haiku", "haiku-3.5", "claude-haiku-3-5"} -> "haiku"
    [] OTHER -> model

normalize_claude_model(model) ==
  LET m == ToLower(model)
  IN CASE m \in {"opus", "opus-4.5", "opus-4", "claude-opus-4-5"} -> "opus"
       [] m \in {"sonnet", "sonnet-4.5", "sonnet-4.1", "claude-sonnet-4-5"} -> "sonnet"
       [] m \in {"haiku", "haiku-3.5", "claude-haiku-3-5"} -> "haiku"
       [] OTHER -> m

\* The configuration the provider is constructed with
ConfiguredModel == "Opus-4.5"

BaseArgs == <<"-p", "--output-format", "json", "--dangerously-skip-permissions">>

\* Mutant: --model is pushed on every turn
BuildArgs_ModelAlways(current, model, system_prompt, prompt, uuid) ==
  BaseArgs
  \o <<"--model", model>>
  \o (IF current = None /\ IsSome(system_prompt)
      THEN <<"--append-system-prompt", Unwrap(system_prompt)>> ELSE <<>>)
  \o (IF IsSome(current) THEN <<"--resume", Unwrap(current)>>
      ELSE <<"--session-id", uuid>>)
  \o <<prompt>>

\* Mutant: the system prompt is appended on every turn that has one
BuildArgs_SystemAlways(current, model, system_prompt, prompt, uuid) ==
  BaseArgs
  \o (IF current = None THEN <<"--model", model>> ELSE <<>>)
  \o (IF IsSome(system_prompt)
      THEN <<"--append-system-prompt", Unwrap(system_prompt)>> ELSE <<>>)
  \o (IF IsSome(current) THEN <<"--resume", Unwrap(current)>>
      ELSE <<"--session-id", uuid>>)
  \o <<prompt>>

\* chat's argument list; uuid is the identifier drawn when there is no token
BuildArgs(current, model, system_prompt, prompt, uuid) ==
  LET is_first_turn == current = None
  IN BaseArgs
     \o (IF is_first_turn THEN <<"--model", model>> ELSE <<>>)
     \o (IF is_first_turn /\ IsSome(system_prompt)
         THEN <<"--append-system-prompt", Unwrap(system_prompt)>> ELSE <<>>)
     \o (IF IsSome(current) THEN <<"--resume", Unwrap(current)>>
         ELSE <<"--session-id", uuid>>)
     \o <<prompt>>

\* serde_json::Value, as far as parse_claude_cli_output looks into it
JStr(x) == [t |-> "str", s |-> x, f |-> <<>>]
JNum == [t |-> "num", s |-> "", f |-> <<>>]
JObj(fields) == [t |-> "obj", s |-> "", f |-> fields]
NotJson == [t |-> "invalid", s |-> "", f |-> <<>>]

JsonGet(v, name) == IF v.t = "obj" /\ name \in DOMAIN v.f THEN Some(v.f[name]) ELSE None

\* a.or_else(|| b).or_else(|| c) ... : the first field that is present
RECURSIVE FirstPresent(_, _)
FirstPresent(v, names) ==
  IF names = <<>> THEN None
  ELSE IF IsSome(JsonGet(v, Head(names))) THEN JsonGet(v, Head(names))
       ELSE FirstPresent(v, Tail(names))

AsStr(o) == IF IsSome(o) /\ Unwrap(o).t = "str" THEN Some(Unwrap(o).s) ELSE None

\* Text is a sequence of pieces; the whitespace pieces are what trim() removes
Whitespace == {" ", "\n"}
RECURSIVE TrimStart(_)
TrimStart(x) == IF x # <<>> /\ Head(x) \in Whitespace THEN TrimStart(Tail(x)) ELSE x
RECURSIVE TrimEnd(_)
TrimEnd(x) ==
  IF x # <<>> /\ x[Len(x)] \in Whitespace THEN TrimEnd(SubSeq(x, 1, Len(x) - 1)) ELSE x
Trim(x) == TrimEnd(TrimStart(x))

\* stdout: its text, and what serde_json::from_str makes of it
Stdout(raw, parsed) == [raw |-> raw, parsed |-> parsed]

parse_claude_cli_output(stdout) ==
  IF stdout.parsed.t # "invalid"
  THEN LET text == AsStr(FirstPresent(stdout.parsed, <<"result", "message", "content">>))
           session_id == AsStr(FirstPresent(stdout.parsed,
                           <<"session_id", "sessionId", "conversation_id", "conversationId">>))
       IN [text |-> IF IsSome(text) THEN text ELSE Trim(stdout.raw),
           session_id |-> session_id]
  ELSE [text |-> Trim(stdout.raw), session_id |-> None]

Stdouts ==
  { Stdout(<<"{r,s1}", "\n">>, JObj([result |-> JStr("hi"), session_id |-> JStr("t1")])),
    Stdout(<<"{m,S2}">>, JObj([message |-> JStr("yo"), sessionId |-> JStr("t2")])),
    Stdout(<<"{r}", "\n">>, JObj([result |-> JStr("hi")])),
    Stdout(<<"{s#,S1}", "\n">>, JObj([session_id |-> JNum, sessionId |-> JStr("t1")])),
    Stdout(<<"{c,C''}">>, JObj([content |-> JStr("ok"), conversationId |-> JStr("")])),
    Stdout(<<" ", "plain", "\n">>, NotJson) }

\* What running the command gives: it could not run, it failed, or it succeeded
Outputs ==
  { [kind |-> "spawn_err", stdout |-> Stdout(<<>>, NotJson), stderr |-> <<>>],
    [kind |-> "failed", stdout |-> Stdout(<<>>, NotJson), stderr |-> <<"boom", "\n">>] }
  \cup { [kind |-> "ok", stdout |-> o, stderr |-> <<>>] : o \in Stdouts }

\* The outputs the command of Spec gives
ChatOutputs ==
  { o \in Outputs :
      \/ o.kind = "failed"
      \/ o.kind = "ok" /\ o.stdout.raw \in {<<"{r,s1}", "\n">>, <<"{m,S2}">>, <<" ", "plain", "\n">>} }

(***************************************************************************)
(* The provider: state, callers, history                                   *)
(***************************************************************************)
Callers == {"a", "b"}
Free == "free"
\* the mutex after a holder panicked: unlocked, and poisoned for good
Poisoned == "poisoned"

\* Mutant: lock() takes the guard out of a PoisonError and goes on
TryLock_IntoInner(l) ==
  IF l \in {Free, Poisoned} THEN "guard" ELSE "wait"

\* cli_session_id.lock().map_err(..)? : a guard, an error on a poisoned mutex,
\* or the caller blocks while another holds it
TryLock(l) ==
  CASE l = Free -> "guard"
    [] l = Poisoned -> "poisoned"
    [] OTHER -> "wait"

\* anyhow!("Session lock poisoned: {}", e)
LockError(t) == [t |-> t, args |-> <<>>, text |-> <<"Session lock poisoned: ">>,
                 tok |-> <<>>, io |-> "none"]

IdleLoc == [messages |-> <<>>, text |-> <<>>, session_id |-> None]

\* One entry of hist: an invocation of the command, a construction, or a return
\* to a caller. tok: the slot as read (invoke, new) or the token obtained
\* (chat_ok); io: the disk's answer to the file write the operation made.
Event(t, args, text, tok, io) ==
  [t |-> t, args |-> args, text |-> text, tok |-> tok, io |-> io]

\* Mutant: the error carries stdout
FailureReturn_Stdout(out) ==
  Event("chat_err", <<>>, <<"Claude CLI failed: ">> \o out.stdout.raw, None, "none")

\* anyhow::bail!("Claude CLI failed: {}", stderr)
FailureReturn(out) ==
  Event("chat_err", <<>>, <<"Claude CLI failed: ">> \o out.stderr, None, "none")

\* Mutant: the store error is returned with ?
PersistReturn_Propagate(r, text, tok, io) ==
  IF r.ok THEN Event("chat_ok", <<>>, text, tok, io)
  ELSE Event("chat_err", <<>>, <<"store error">>, None, io)

\* What chat returns after save_cli_session_to_store gave r: its error is only logged
PersistReturn(r, text, tok, io) == Event("chat_ok", <<>>, text, tok, io)

\* What clear_session returns after clear_cli_session_from_store gave r
ClearReturn(r, io) == Event(IF r.ok THEN "clear_ok" ELSE "clear_err", <<>>, <<>>, None, io)

InitFiles ==
  { Missing,
    Garbage,
    Unreadable,
    JsonFile([main |-> [sessionId |-> "s0", updatedAt |-> 0, claudeCliSessionId |-> "t2"]]),
    JsonFile([main |-> [sessionId |-> "s0", updatedAt |-> 0,
                        cliSessionIds |-> [x \in {"claude-cli"} |-> "t1"],
                        claudeCliSessionId |-> "t1"]]) }

Init ==
  /\ file \in InitFiles
  /\ now = 0
  /\ slot = load_cli_session_from_store(file, MainKey, CLAUDE_CLI_PROVIDER)
  /\ lock = Free
  /\ localId = NewUuid(0)
  /\ uuids = 1
  /\ pc = [c \in Callers |-> "idle"]
  /\ loc = [c \in Callers |-> IdleLoc]
  /\ hist = <<>>
  /\ stores = <<>>
  /\ nops = 0
  /\ sel = <<>>
  /\ call = <<>>
  /\ stream = <<>>

\* chrono::Utc::now() moves on (SpecStore; a step of its budget)
Tick ==
  /\ nops < MaxStoreOps
  /\ nops' = nops + 1
  /\ now' = now + 1
  /\ UNCHANGED <<file, slot, lock, localId, uuids, pc, loc, hist, stores, sel, call, stream>>

\* ClaudeCliProvider::new: a provider instance of a (re)started process
New ==
  /\ \A c \in Callers : pc[c] = "idle"
  /\ Len(hist) < MaxHist
  /\ slot' = load_cli_session_from_store(file, MainKey, CLAUDE_CLI_PROVIDER)
  /\ lock' = Free
  /\ localId' = NewUuid(uuids)
  /\ uuids' = uuids + 1
  /\ hist' = Append(hist, Event("new", <<>>, <<>>, slot', "none"))
  /\ UNCHANGED <<file, now, pc, loc, stores, nops, sel, call, stream>>

\* chat, to the lock() of its first statement on the slot
ChatBegin(c, messages) ==
  /\ pc[c] = "idle"
  /\ Len(hist) < MaxHist
  /\ TryLock(lock) = "guard"
  /\ lock' = c
  /\ pc' = [pc EXCEPT ![c] = "read"]
  /\ loc' = [loc EXCEPT ![c] = [IdleLoc EXCEPT !.messages = messages]]
  /\ UNCHANGED <<file, now, slot, localId, uuids, hist, stores, nops, sel, call, stream>>

\* Mutant: the guard is bound to a local and lives on while the command runs
ChatRead_KeepGuard(c) ==
  /\ pc[c] = "read"
  /\ lock = c
  /\ LET current == slot
         args == BuildArgs(current, normalize_claude_model(ConfiguredModel),
                           extract_system_prompt(loc[c].messages),
                           build_prompt_from_messages(loc[c].messages), NewUuid(uuids))
     IN /\ loc' = [loc EXCEPT ![c] = IdleLoc]
        /\ uuids' = IF current = None THEN uuids + 1 ELSE uuids
        /\ hist' = Append(hist, Event("invoke", args, <<>>, current, "none"))
  /\ lock' = c
  /\ pc' = [pc EXCEPT ![c] = "running"]
  /\ UNCHANGED <<file, now, slot, localId, stores, nops, sel, call, stream>>

\* chat: clone the slot, drop the guard, build the arguments, start the command
ChatRead(c) ==
  /\ pc[c] = "read"
  /\ lock = c
  /\ LET current == slot
         args == BuildArgs(current, normalize_claude_model(ConfiguredModel),
                           extract_system_prompt(loc[c].messages),
                           build_prompt_from_messages(loc[c].messages), NewUuid(uuids))
     IN /\ loc' = [loc EXCEPT ![c] = IdleLoc]
        /\ uuids' = IF current = None THEN uuids + 1 ELSE uuids
        /\ hist' = Append(hist, Event("invoke", args, <<>>, current, "none"))
  /\ lock' = Free
  /\ pc' = [pc EXCEPT ![c] = "running"]
  /\ UNCHANGED <<file, now, slot, localId, stores, nops, sel, call, stream>>

\* Mutant: a turn without a token empties the slot
ChatExit_ResetSlot(c, out) ==
  /\ pc[c] = "running"
  /\ LET parsed == parse_claude_cli_output(out.stdout)
     IN CASE out.kind = "spawn_err" ->
               /\ hist' = Append(hist, Event("chat_err", <<>>, <<"io error">>, None, "none"))
               /\ pc' = [pc EXCEPT ![c] = "idle"]
               /\ loc' = [loc EXCEPT ![c] = IdleLoc]
               /\ slot' = slot
          [] out.kind = "failed" ->
               /\ hist' = Append(hist, FailureReturn(out))
               /\ pc' = [pc EXCEPT ![c] = "idle"]
               /\ loc' = [loc EXCEPT ![c] = IdleLoc]
               /\ slot' = slot
          [] out.kind = "ok" /\ parsed.session_id = None ->
               /\ hist' = Append(hist, Event("chat_ok", <<>>, parsed.text, None, "none"))
               /\ pc' = [pc EXCEPT ![c] = "idle"]
               /\ loc' = [loc EXCEPT ![c] = IdleLoc]
               /\ slot' = None
          [] OTHER ->
               /\ hist' = hist
               /\ pc' = [pc EXCEPT ![c] = "lock_w"]
               /\ loc' = [loc EXCEPT ![c].text = parsed.text,
                                     ![c].session_id = parsed.session_id]
               /\ slot' = slot
  /\ UNCHANGED <<file, now, lock, localId, uuids, stores, nops, sel, call, stream>>

\* chat: the command has ended; errors return, a token goes on to the slot
ChatExit(c, out) ==
  /\ pc[c] = "running"
  /\ LET parsed == parse_claude_cli_output(out.stdout)
     IN CASE out.kind = "spawn_err" ->
               /\ hist' = Append(hist, Event("chat_err", <<>>, <<"io error">>, None, "none"))
               /\ pc' = [pc EXCEPT ![c] = "idle"]
               /\ loc' = [loc EXCEPT ![c] = IdleLoc]
          [] out.kind = "failed" ->
               /\ hist' = Append(hist, FailureReturn(out))
               /\ pc' = [pc EXCEPT ![c] = "idle"]
               /\ loc' = [loc EXCEPT ![c] = IdleLoc]
          [] out.kind = "ok" /\ parsed.session_id = None ->
               /\ hist' = Append(hist, Event("chat_ok", <<>>, parsed.text, None, "none"))
               /\ pc' = [pc EXCEPT ![c] = "idle"]
               /\ loc' = [loc EXCEPT ![c] = IdleLoc]
          [] OTHER ->
               /\ hist' = hist
               /\ pc' = [pc EXCEPT ![c] = "lock_w"]
               /\ loc' = [loc EXCEPT ![c].text = parsed.text,
                                     ![c].session_id = parsed.session_id]
  /\ UNCHANGED <<file, now, slot, lock, localId, uuids, stores, nops, sel, call, stream>>

\* chat: lock() before the slot is written
ChatLockW(c) ==
  /\ pc[c] = "lock_w"
  /\ TryLock(lock) = "guard"
  /\ lock' = c
  /\ pc' = [pc EXCEPT ![c] = "write"]
  /\ UNCHANGED <<file, now, slot, localId, uuids, loc, hist, stores, nops, sel, call, stream>>

\* Mutant: a slot that already holds a token is left as it is
ChatWrite_KeepFirst(c, io) ==
  /\ pc[c] = "write"
  /\ lock = c
  /\ slot' = IF slot = None THEN loc[c].session_id ELSE slot
  /\ LET r == save_cli_session_to_store(file, MainKey, localId, CLAUDE_CLI_PROVIDER,
                                        Unwrap(loc[c].session_id), now, io)
     IN /\ file' = r.file
        /\ hist' = Append(hist, PersistReturn(r, loc[c].text, loc[c].session_id, io))
  /\ lock' = Free
  /\ pc' = [pc EXCEPT ![c] = "idle"]
  /\ loc' = [loc EXCEPT ![c] = IdleLoc]
  /\ UNCHANGED <<now, localId, uuids, stores, nops, sel, call, stream>>

\* chat: write the slot, persist the token, drop the guard, return Text(response)
ChatWrite(c, io) ==
  /\ pc[c] = "write"
  /\ lock = c
  /\ slot' = loc[c].session_id
  /\ LET r == save_cli_session_to_store(file, MainKey, localId, CLAUDE_CLI_PROVIDER,
                                        Unwrap(loc[c].session_id), now, io)
     IN /\ file' = r.file
        /\ hist' = Append(hist, PersistReturn(r, loc[c].text, loc[c].session_id, io))
  /\ lock' = Free
  /\ pc' = [pc EXCEPT ![c] = "idle"]
  /\ loc' = [loc EXCEPT ![c] = IdleLoc]
  /\ UNCHANGED <<now, localId, uuids, stores, nops, sel, call, stream>>

\* clear_session, to its lock()
ClearBegin(c) ==
  /\ pc[c] = "idle"
  /\ Len(hist) < MaxHist
  /\ TryLock(lock) = "guard"
  /\ lock' = c
  /\ pc' = [pc EXCEPT ![c] = "clearing"]
  /\ UNCHANGED <<file, now, slot, localId, uuids, loc, hist, stores, nops, sel, call, stream>>

\* clear_session: empty the slot, clear the store, drop the guard, return
ClearBody(c, io) ==
  /\ pc[c] = "clearing"
  /\ lock = c
  /\ slot' = None
  /\ LET r == clear_cli_session_from_store(file, MainKey, CLAUDE_CLI_PROVIDER, now, io)
     IN /\ file' = r.file
        /\ hist' = Append(hist, ClearReturn(r, io))
  /\ lock' = Free
  /\ pc' = [pc EXCEPT ![c] = "idle"]
  /\ UNCHANGED <<now, localId, uuids, loc, stores, nops, sel, call, stream>>

Next ==
  \/ New
  \/ \E c \in Callers, messages \in ChatInputs : ChatBegin(c, messages)
  \/ \E c \in Callers : ChatRead(c)
  \/ \E c \in Callers, out \in ChatOutputs : ChatExit(c, out)
  \/ \E c \in Callers : ChatLockW(c)
  \/ \E c \in Callers, io \in IoOutcomes : ChatWrite(c, io)
  \/ \E c \in Callers : ClearBegin(c)
  \/ \E c \in Callers, io \in IoOutcomes : ClearBody(c, io)

Spec == Init /\ [][Next]_vars

\* SpecTokens: the same provider with one caller at a time, whose command may
\* give any of Outputs, the ones with an empty-string token among them
NextTokens ==
  \/ New
  \/ \E messages \in ChatInputs : ChatBegin("a", messages)
  \/ ChatRead("a")
  \/ \E out \in Outputs : ChatExit("a", out)
  \/ ChatLockW("a")
  \/ \E io \in IoOutcomes : ChatWrite("a", io)
  \/ ClearBegin("a")
  \/ \E io \in IoOutcomes : ClearBody("a", io)

SpecTokens == Init /\ [][NextTokens]_vars

(***************************************************************************)
(* SpecPoison: the same provider, with lock holders that can panic          *)
(***************************************************************************)
\* A panic while caller c holds the guard: the guard's drop poisons the mutex and
\* unlocks it; the call is gone. The slot is as the holder left it: written or not.
HolderPanics(c, written) ==
  /\ pc[c] \in {"read", "write", "clearing"}
  /\ lock = c
  /\ lock' = Poisoned
  /\ slot' = CASE pc[c] = "write" /\ written -> loc[c].session_id
                [] pc[c] = "clearing" /\ written -> None
                [] OTHER -> slot
  /\ pc' = [pc EXCEPT ![c] = "idle"]
  /\ loc' = [loc EXCEPT ![c] = IdleLoc]
  /\ hist' = Append(hist, Event("panic", <<>>, <<>>, slot', "none"))
  /\ UNCHANGED <<file, now, localId, uuids, stores, nops, sel, call, stream>>

\* chat on a poisoned mutex: the first lock() is an error, chat returns it
ChatPoisoned(c, messages) ==
  /\ pc[c] = "idle"
  /\ Len(hist) < MaxHist
  /\ TryLock(lock) = "poisoned"
  /\ hist' = Append(hist, LockError("chat_err"))
  /\ UNCHANGED <<file, now, slot, lock, localId, uuids, pc, loc, stores, nops, sel, call, stream>>

\* chat whose command has ended with a token: the second lock() is an error
ChatLockWPoisoned(c) ==
  /\ pc[c] = "lock_w"
  /\ TryLock(lock) = "poisoned"
  /\ hist' = Append(hist, LockError("chat_err"))
  /\ pc' = [pc EXCEPT ![c] = "idle"]
  /\ loc' = [loc EXCEPT ![c] = IdleLoc]
  /\ UNCHANGED <<file, now, slot, lock, localId, uuids, stores, nops, sel, call, stream>>

\* clear_session on a poisoned mutex: lock() is an error, clear_session returns it
ClearPoisoned(c) ==
  /\ pc[c] = "idle"
  /\ Len(hist) < MaxHist
  /\ TryLock(lock) = "poisoned"
  /\ hist' = Append(hist, LockError("clear_err"))
  /\ UNCHANGED <<file, now, slot, lock, localId, uuids, pc, loc, stores, nops, sel, call, stream>>

NextPoison ==
  \/ \E c \in Callers, messages \in ChatInputs : ChatBegin(c, messages)
  \/ \E c \in Callers : ChatRead(c)
  \/ \E c \in Callers, out \in ChatOutputs : ChatExit(c, out)
  \/ \E c \in Callers : ChatLockW(c)
  \/ \E c \in Callers, io \in IoOutcomes : ChatWrite(c, io)
  \/ \E c \in Callers : ClearBegin(c)
  \/ \E c \in Callers, io \in IoOutcomes : ClearBody(c, io)
  \/ \E c \in Callers, written \in BOOLEAN : HolderPanics(c, written)
  \/ \E c \in Callers, messages \in ChatInputs : ChatPoisoned(c, messages)
  \/ \E c \in Callers : ChatLockWPoisoned(c)
  \/ \E c \in Callers : ClearPoisoned(c)

SpecPoison == Init /\ [][NextPoison]_vars

(***************************************************************************)
(* SpecStore: SessionStore instances over one file                         *)
(***************************************************************************)
StoreIds == {1, 2}
Seeds == {"s1"}
NotLoaded == [loaded |-> FALSE, entries |-> NoEntries]
\* The disk's answers in SpecStore
StoreIo == {"ok", "write_err"}

InitStore ==
  /\ file \in InitFiles
  /\ now = 0
  /\ slot = None
  /\ lock = Free
  /\ localId = ""
  /\ uuids = 0
  /\ pc = [c \in Callers |-> "idle"]
  /\ loc = [c \in Callers |-> IdleLoc]
  /\ hist = <<>>
  /\ stores = [i \in StoreIds |-> NotLoaded]
  /\ nops = 0
  /\ sel = <<>>
  /\ call = <<>>
  /\ stream = <<>>

\* hist holds the last store call only: [t, args = <<key, provider, token>>]
StoreEvent(t, key, provider, token, io) == <<Event(t, <<key, provider, token>>, <<>>, None, io)>>

\* SessionStore::load_for_agent into instance i
StoreLoad(i) ==
  /\ nops < MaxStoreOps
  /\ \A j \in StoreIds : j < i => stores[j].loaded
  /\ nops' = nops + 1
  /\ LET l == Load(file)
     IN /\ stores' = [stores EXCEPT ![i] = IF l.ok THEN [loaded |-> TRUE, entries |-> l.entries]
                                           ELSE NotLoaded]
        /\ hist' = StoreEvent(IF l.ok THEN "load_ok" ELSE "load_err", "", "", "", "none")
  /\ UNCHANGED <<file, now, slot, lock, localId, uuids, pc, loc, sel, call, stream>>

\* SessionStore::set_cli_session_id on instance i: update, then save
StoreSet(i, key, seed, provider, token, io) ==
  /\ nops < MaxStoreOps
  /\ stores[i].loaded
  /\ nops' = nops + 1
  /\ LET entries == StoreSetCliSessionId(stores[i].entries, key, seed, provider, token, now)
         r == Save(entries, file, io)
     IN /\ stores' = [stores EXCEPT ![i].entries = entries]
        /\ file' = r.file
        /\ hist' = StoreEvent(IF r.ok THEN "set_ok" ELSE "set_err", key, provider, token, io)
  /\ UNCHANGED <<now, slot, lock, localId, uuids, pc, loc, sel, call, stream>>

\* SessionStore::update on instance i with the closure that removes a token
StoreClear(i, key, provider, io) ==
  /\ nops < MaxStoreOps
  /\ stores[i].loaded
  /\ nops' = nops + 1
  /\ LET entries == Update(stores[i].entries, key, "", ClearClosure(provider), now)
         r == Save(entries, file, io)
     IN /\ stores' = [stores EXCEPT ![i].entries = entries]
        /\ file' = r.file
        /\ hist' = StoreEvent(IF r.ok THEN "update_ok" ELSE "update_err", key, provider, "", io)
  /\ UNCHANGED <<now, slot, lock, localId, uuids, pc, loc, sel, call, stream>>

\* SessionStore::get_or_create on instance i: the map only, no save
StoreGetOrCreate(i, key, seed) ==
  /\ nops < MaxStoreOps
  /\ stores[i].loaded
  /\ nops' = nops + 1
  /\ stores' = [stores EXCEPT ![i].entries = GetOrCreate(@, key, seed, now)]
  /\ hist' = StoreEvent("get_or_create", key, "", "", "none")
  /\ UNCHANGED <<file, now, slot, lock, localId, uuids, pc, loc, sel, call, stream>>

NextStore ==
  \/ Tick
  \/ \E i \in StoreIds : StoreLoad(i)
  \/ \E i \in StoreIds, key \in Keys, seed \in Seeds, provider \in Providers,
        token \in Tokens, io \in StoreIo : StoreSet(i, key, seed, provider, token, io)
  \/ \E i \in StoreIds, key \in Keys, provider \in Providers, io \in StoreIo :
        StoreClear(i, key, provider, io)
  \/ \E i \in StoreIds, key \in Keys, seed \in Seeds : StoreGetOrCreate(i, key, seed)

SpecStore == InitStore /\ [][NextStore]_vars

\* SpecMirror: the same store operations, starting where no sessions.json exists
InitMirror == InitStore /\ file = Missing

SpecMirror == InitMirror /\ [][NextStore]_vars

(***************************************************************************)
(* SpecSelect: create_provider on a model identifier and a configuration    *)
(***************************************************************************)
MaxSel == 2

\* A model identifier is a sequence of pieces; the prefixes the selector tests
\* ("claude-cli/", "gpt-", "o1", "claude-") are made of whole pieces
CliPrefix == <<"claude-", "cli/">>
GptPrefix == <<"gpt-">>
O1Prefix == <<"o1">>
ClaudePrefix == <<"claude-">>

ModelIds ==
  { <<"claude-", "cli/", "Opus-4.5">>, <<"claude-", "cli/", "Llama3">>, <<"claude-", "cli/">>,
    <<"claude-", "3-opus">>, <<"gpt-", "4">>, <<"o1", "-mini">>, <<"llama3">>, <<"gpt">> }

\* str::starts_with and str::strip_prefix
StartsWith(s, prefix) ==
  Len(s) >= Len(prefix) /\ SubSeq(s, 1, Len(prefix)) = prefix
StripPrefix(s, prefix) ==
  IF StartsWith(s, prefix) THEN Some(SubSeq(s, Len(prefix) + 1, Len(s))) ELSE None

\* what is left of an identifier after a prefix, as a string: one piece, or nothing
RestToString(rest) == IF rest = <<>> THEN "" ELSE rest[1]

\* config.providers: each provider's section is there or not
OpenAIConfig == [api_key |-> "sk-openai", base_url |-> "https://api.openai.com/v1"]
AnthropicConfig == [api_key |-> "sk-ant", base_url |-> "https://api.anthropic.com"]
OllamaConfig == [endpoint |-> "http://localhost:11434"]
ClaudeCliConfig == [command |-> "claude-bin", model |-> "SONNET"]
Workspace == "~/.localgpt/workspace"

Configs ==
  { [openai |-> o, anthropic |-> a, ollama |-> l, claude_cli |-> c] :
      o \in {None, Some(OpenAIConfig)}, a \in {None, Some(AnthropicConfig)},
      l \in {None, Some(OllamaConfig)}, c \in {None, Some(ClaudeCliConfig)} }

\* Result<Box<dyn LLMProvider>>
OkProvider(p) == [ok |-> TRUE, provider |-> p, err |-> <<>>]
ConfigError(text) == [ok |-> FALSE, provider |-> <<>>, err |-> text]

OpenAIProviderNew(api_key, base_url, model) ==
  [kind |-> "openai", api_key |-> api_key, base_url |-> base_url, model |-> model]
AnthropicProviderNew(api_key, base_url, model) ==
  [kind |-> "anthropic", api_key |-> api_key, base_url |-> base_url, model |-> model]
OllamaProviderNew(endpoint, model) ==
  [kind |-> "ollama", endpoint |-> endpoint, model |-> model]

\* Mutant: the store row is keyed by the instance's own identifier
ClaudeCliProviderNew_KeyFromId(command, model, workspace, f, uuid) ==
  [kind |-> "claude-cli", command |-> command, model |-> normalize_claude_model(model),
   workspace |-> workspace, session_key |-> uuid, localgpt_session_id |-> uuid,
   cli_session_id |-> load_cli_session_from_store(f, uuid, CLAUDE_CLI_PROVIDER)]

\* ClaudeCliProvider::new: f is the session file it reads, uuid the identifier it draws
ClaudeCliProviderNew(command, model, workspace, f, uuid) ==
  [kind |-> "claude-cli", command |-> command, model |-> normalize_claude_model(model),
   workspace |-> workspace, session_key |-> MainKey, localgpt_session_id |-> uuid,
   cli_session_id |-> load_cli_session_from_store(f, MainKey, CLAUDE_CLI_PROVIDER)]

\* Mutant: an OpenAI-family identifier without credentials falls through to the
\* local endpoint and the CLI
create_provider_FallThrough(model, config, f, uuid) ==
  IF StartsWith(model, CliPrefix)
  THEN OkProvider(ClaudeCliProviderNew(
         IF IsSome(config.claude_cli) THEN Unwrap(config.claude_cli).command ELSE "claude",
         RestToString(Unwrap(StripPrefix(model, CliPrefix))), Workspace, f, uuid))
  ELSE IF (StartsWith(model, GptPrefix) \/ StartsWith(model, O1Prefix)) /\ IsSome(config.openai)
  THEN OkProvider(OpenAIProviderNew(Unwrap(config.openai).api_key,
                                    Unwrap(config.openai).base_url, model))
  ELSE IF StartsWith(model, ClaudePrefix)
  THEN IF IsSome(config.anthropic)
       THEN OkProvider(AnthropicProviderNew(Unwrap(config.anthropic).api_key,
                                            Unwrap(config.anthropic).base_url, model))
       ELSE ConfigError(<<"Anthropic provider not configured">>)
  ELSE IF IsSome(config.ollama)
  THEN OkProvider(OllamaProviderNew(Unwrap(config.ollama).endpoint, model))
  ELSE IF IsSome(config.claude_cli)
  THEN OkProvider(ClaudeCliProviderNew(Unwrap(config.claude_cli).command,
                                       Unwrap(config.claude_cli).model, Workspace, f, uuid))
  ELSE ConfigError(<<"Unknown model or provider not configured: ">> \o model)

\* Mutant: the "claude-" test comes before the "claude-cli/" test
create_provider_AnthropicFirst(model, config, f, uuid) ==
  IF StartsWith(model, ClaudePrefix)
  THEN IF IsSome(config.anthropic)
       THEN OkProvider(AnthropicProviderNew(Unwrap(config.anthropic).api_key,
                                            Unwrap(config.anthropic).base_url, model))
       ELSE ConfigError(<<"Anthropic provider not configured">>)
  ELSE IF StartsWith(model, CliPrefix)
  THEN OkProvider(ClaudeCliProviderNew(
         IF IsSome(config.claude_cli) THEN Unwrap(config.claude_cli).command ELSE "claude",
         RestToString(Unwrap(StripPrefix(model, CliPrefix))), Workspace, f, uuid))
  ELSE IF StartsWith(model, GptPrefix) \/ StartsWith(model, O1Prefix)
  THEN IF IsSome(config.openai)
       THEN OkProvider(OpenAIProviderNew(Unwrap(config.openai).api_key,
                                         Unwrap(config.openai).base_url, model))
       ELSE ConfigError(<<"OpenAI provider not configured">>)
  ELSE IF IsSome(config.ollama)
  THEN OkProvider(OllamaProviderNew(Unwrap(config.ollama).endpoint, model))
  ELSE IF IsSome(config.claude_cli)
  THEN OkProvider(ClaudeCliProviderNew(Unwrap(config.claude_cli).command,
                                       Unwrap(config.claude_cli).model, Workspace, f, uuid))
  ELSE ConfigError(<<"Unknown model or provider not configured: ">> \o model)

\* create_provider; f and uuid are what ClaudeCliProvider::new reads and draws
create_provider(model, config, f, uuid) ==
  IF StartsWith(model, CliPrefix)
  THEN LET stripped == StripPrefix(model, CliPrefix)
           model_name == IF IsSome(stripped) THEN RestToString(Unwrap(stripped)) ELSE "opus"
           command == IF IsSome(config.claude_cli) THEN Unwrap(config.claude_cli).command
                      ELSE "claude"
       IN OkProvider(ClaudeCliProviderNew(command, model_name, Workspace, f, uuid))
  ELSE IF StartsWith(model, GptPrefix) \/ StartsWith(model, O1Prefix)
  THEN IF IsSome(config.openai)
       THEN OkProvider(OpenAIProviderNew(Unwrap(config.openai).api_key,
                                         Unwrap(config.openai).base_url, model))
       ELSE ConfigError(<<"OpenAI provider not configured">>)
  ELSE IF StartsWith(model, ClaudePrefix)
  THEN IF IsSome(config.anthropic)
       THEN OkProvider(AnthropicProviderNew(Unwrap(config.anthropic).api_key,
                                            Unwrap(config.anthropic).base_url, model))
       ELSE ConfigError(<<"Anthropic provider not configured">>)
  ELSE IF IsSome(config.ollama)
  THEN OkProvider(OllamaProviderNew(Unwrap(config.ollama).endpoint, model))
  ELSE IF IsSome(config.claude_cli)
  THEN OkProvider(ClaudeCliProviderNew(Unwrap(config.claude_cli).command,
                                       Unwrap(config.claude_cli).model, Workspace, f, uuid))
  ELSE ConfigError(<<"Unknown model or provider not configured: ">> \o model)

InitSelect ==
  /\ file \in InitFiles
  /\ now = 0
  /\ slot = None
  /\ lock = Free
  /\ localId = ""
  /\ uuids = 0
  /\ pc = [c \in Callers |-> "idle"]
  /\ loc = [c \in Callers |-> IdleLoc]
  /\ hist = <<>>
  /\ stores = <<>>
  /\ nops = 0
  /\ sel \in {[model |-> m, config |-> c, made |-> <<>>] : m \in ModelIds, c \in Configs}
  /\ call = <<>>
  /\ stream = <<>>

\* create_provider(model, config), once more on the same inputs
Select ==
  /\ Len(sel.made) < MaxSel
  /\ LET r == create_provider(sel.model, sel.config, file, NewUuid(uuids))
     IN /\ sel' = [sel EXCEPT !.made = Append(@, r)]
        /\ uuids' = IF r.ok /\ r.provider.kind = "claude-cli" THEN uuids + 1 ELSE uuids
  /\ UNCHANGED <<file, now, slot, lock, localId, pc, loc, hist, stores, nops, call, stream>>

\* Between two selections a subprocess provider's chat persists a token
SessionPersisted(token) ==
  /\ file' = save_cli_session_to_store(file, MainKey, "s1", CLAUDE_CLI_PROVIDER,
                                       token, now, "ok").file
  /\ UNCHANGED <<now, slot, lock, localId, uuids, pc, loc, hist, stores, nops,
                 sel, call, stream>>

NextSelect ==
  \/ Select
  \/ \E token \in {"t1", "t2"} : SessionPersisted(token)

SpecSelect == InitSelect /\ [][NextSelect]_vars

(***************************************************************************)
(* SpecCall: the trait's provided chat_stream, and summarize, over chat      *)
(***************************************************************************)
ProviderKinds == {"openai", "anthropic", "ollama", "claude-cli"}
\* OllamaProvider has a chat_stream of its own; the others take the provided one
DefaultStreamKinds == {"openai", "anthropic", "claude-cli"}

\* LLMResponse and the Result<LLMResponse> of a chat
Text(t) == [kind |-> "text", text |-> t, calls |-> <<>>]
ToolCalls(calls) == [kind |-> "tool_calls", text |-> <<>>, calls |-> calls]
ChatErr(e) == [kind |-> "err", text |-> e, calls |-> <<>>]

SomeToolCall == [id |-> "call_1", name |-> "read_file", arguments |-> "{}"]

\* What chat can give: only the OpenAI and Anthropic chats build ToolCalls
ChatReplies(provider) ==
  {Text(<<>>), Text(<<"a summary">>), Text(<<" ", "padded", "\n">>), ChatErr(<<"API error">>)}
  \cup (IF provider \in {"openai", "anthropic"}
        THEN {ToolCalls(<<SomeToolCall>>)} ELSE {})

SomeTools == <<[name |-> "read_file", description |-> "read a file", parameters |-> "{}"]>>
SummaryTexts == {<<>>, <<"user: hi", "\n", "assistant: hello">>}

StreamChunk(delta, done) == [delta |-> delta, done |-> done]

\* Result<StreamResult> / Result<String>
OkValue(v) == [ok |-> TRUE, value |-> v, err |-> <<>>]
ErrValue(e) == [ok |-> FALSE, value |-> <<>>, err |-> e]

\* Mutant: a ToolCalls response is streamed as one empty chunk
chat_stream_default_EmptyChunk(resp) ==
  CASE resp.kind = "err" -> ErrValue(resp.text)
    [] resp.kind = "tool_calls" -> OkValue(<<StreamChunk(<<>>, TRUE)>>)
    [] OTHER -> OkValue(<<StreamChunk(resp.text, TRUE)>>)

\* LLMProvider::chat_stream (provided): what it makes of chat's result
chat_stream_default(resp) ==
  CASE resp.kind = "err" -> ErrValue(resp.text)
    [] resp.kind = "tool_calls" -> ErrValue(<<"Tool calls not supported in streaming">>)
    [] OTHER -> OkValue(<<StreamChunk(resp.text, TRUE)>>)

\* The instruction each summarize puts before the text
SummarizeInstruction(provider) ==
  IF provider = "claude-cli"
  THEN "Summarize the following conversation concisely:\n\n"
  ELSE "Summarize the following conversation concisely, preserving key information and context:\n\n"

\* summarize's vec![Message { .. }]
SummarizeMessages(provider, text) ==
  << [role |-> "user", content |-> <<SummarizeInstruction(provider)>> \o text,
      tool_calls |-> None, tool_call_id |-> None] >>

\* summarize: what it makes of chat's result
SummarizeResult(resp) ==
  CASE resp.kind = "err" -> ErrValue(resp.text)
    [] resp.kind = "text" -> OkValue(resp.text)
    [] OTHER -> ErrValue(<<"Unexpected response type">>)

NoResult == [ok |-> FALSE, value |-> <<>>, err |-> <<"pending">>]

CallInputs ==
  { [provider |-> p, op |-> "chat_stream", arg |-> m, tools |-> t, reply |-> r] :
      p \in DefaultStreamKinds, m \in ChatInputs, t \in {None, Some(SomeTools)},
      r \in ChatReplies("openai") }
  \cup
  { [provider |-> p, op |-> "summarize", arg |-> x, tools |-> None, reply |-> r] :
      p \in ProviderKinds, x \in SummaryTexts, r \in ChatReplies("openai") }

InitCall ==
  /\ file = Missing
  /\ now = 0
  /\ slot = None
  /\ lock = Free
  /\ localId = ""
  /\ uuids = 0
  /\ pc = [c \in Callers |-> "idle"]
  /\ loc = [c \in Callers |-> IdleLoc]
  /\ hist = <<>>
  /\ stores = <<>>
  /\ nops = 0
  /\ sel = <<>>
  /\ \E i \in {x \in CallInputs : x.reply \in ChatReplies(x.provider)} :
       call = [provider |-> i.provider, op |-> i.op, arg |-> i.arg, tools |-> i.tools,
               reply |-> i.reply, chats |-> <<>>, at |-> "start", result |-> NoResult,
               pending |-> <<>>, items |-> <<>>, ended |-> FALSE]
  /\ stream = <<>>

\* chat_stream (provided): one chat with no tools, then the stream or the error
ChatStreamDefault ==
  /\ call.op = "chat_stream" /\ call.at = "start"
  /\ LET r == chat_stream_default(call.reply)
     IN call' = [call EXCEPT !.chats = Append(@, [messages |-> call.arg, tools |-> None]),
                             !.result = r,
                             !.pending = IF r.ok THEN r.value ELSE <<>>,
                             !.at = IF r.ok THEN "stream" ELSE "returned"]
  /\ UNCHANGED <<file, now, slot, lock, localId, uuids, pc, loc, hist, stores, nops,
                 sel, stream>>

\* The caller polls the stream of futures::stream::once: its item, then the end
StreamNext ==
  /\ call.at = "stream" /\ ~call.ended
  /\ IF call.pending # <<>>
     THEN call' = [call EXCEPT !.items = Append(@, Head(call.pending)),
                               !.pending = Tail(@)]
     ELSE call' = [call EXCEPT !.ended = TRUE]
  /\ UNCHANGED <<file, now, slot, lock, localId, uuids, pc, loc, hist, stores, nops,
                 sel, stream>>

\* summarize: one chat on the synthetic message, then the text or the error
Summarize ==
  /\ call.op = "summarize" /\ call.at = "start"
  /\ call' = [call EXCEPT
                !.chats = Append(@, [messages |-> SummarizeMessages(call.provider, call.arg),
                                     tools |-> None]),
                !.result = SummarizeResult(call.reply),
                !.at = "returned"]
  /\ UNCHANGED <<file, now, slot, lock, localId, uuids, pc, loc, hist, stores, nops,
                 sel, stream>>

NextCall ==
  \/ ChatStreamDefault
  \/ StreamNext
  \/ Summarize

SpecCall == InitCall /\ [][NextCall]_vars

(***************************************************************************)
(* SpecStream: OllamaProvider::chat_stream on the response's byte stream     *)
(***************************************************************************)
MaxChunks == 2

\* Bytes and characters are one-character strings; "0xC3" "0xA9" are the two bytes
\* of the character "U+00E9", and "U+FFFD" is the replacement character.
RecordHel ==
  <<"{", "\"", "m", "e", "s", "s", "a", "g", "e", "\"", ":", "{", "\"", "c", "o", "n", "t",
    "e", "n", "t", "\"", ":", "\"", "H", "e", "l", "\"", "}", ",", "\"", "d", "o", "n", "e",
    "\"", ":", "f", "a", "l", "s", "e", "}">>

RecordLo ==
  <<"{", "\"", "m", "e", "s", "s", "a", "g", "e", "\"", ":", "{", "\"", "c", "o", "n", "t",
    "e", "n", "t", "\"", ":", "\"", "l", "o", "\"", "}", ",", "\"", "d", "o", "n", "e", "\"",
    ":", "t", "r", "u", "e", "}">>

\* a record cut short: not JSON
RecordCut ==
  <<"{", "\"", "m", "e", "s", "s", "a", "g", "e", "\"", ":", "{", "\"", "c", "o", "n", "t",
    "e", "n", "t", "\"", ":", "\"", "H", "e">>

\* JSON without a "message"
RecordBare ==
  <<"{", "\"", "d", "o", "n", "e", "\"", ":", "t", "r", "u", "e", "}">>

\* a record whose content is one two-byte character, as bytes and decoded
RecordAccentBytes ==
  <<"{", "\"", "m", "e", "s", "s", "a", "g", "e", "\"", ":", "{", "\"", "c", "o", "n", "t",
    "e", "n", "t", "\"", ":", "\"", "0xC3", "0xA9", "\"", "}", "}">>

RecordAccent ==
  <<"{", "\"", "m", "e", "s", "s", "a", "g", "e", "\"", ":", "{", "\"", "c", "o", "n", "t",
    "e", "n", "t", "\"", ":", "\"", "U+00E9", "\"", "}", "}">>

RecordAccentLost ==
  <<"{", "\"", "m", "e", "s", "s", "a", "g", "e", "\"", ":", "{", "\"", "c", "o", "n", "t",
    "e", "n", "t", "\"", ":", "\"", "U+FFFD", "U+FFFD", "\"", "}", "}">>

JBool(b) == [t |-> "bool", s |-> IF b THEN "true" ELSE "false", f |-> <<>>]
JNull == [t |-> "null", s |-> "", f |-> <<>>]

\* serde_json::from_str::<Value> on the lines of the model's response bodies
StreamFromStr(line) ==
  CASE line = RecordHel ->
         JObj([message |-> JObj([content |-> JStr("Hel")]), done |-> JBool(FALSE)])
    [] line = RecordLo ->
         JObj([message |-> JObj([content |-> JStr("lo")]), done |-> JBool(TRUE)])
    [] line = RecordBare -> JObj([done |-> JBool(TRUE)])
    [] line = RecordAccent -> JObj([message |-> JObj([content |-> JStr("U+00E9")])])
    [] line = RecordAccentLost ->
         JObj([message |-> JObj([content |-> JStr("U+FFFD U+FFFD")])])
    [] OTHER -> NotJson

\* json[name]: Null when json is no object or has no such field
Index(json, name) == IF IsSome(JsonGet(json, name)) THEN Unwrap(JsonGet(json, name)) ELSE JNull

\* String::from_utf8_lossy: a whole two-byte sequence is its character, a byte of
\* one that is not whole is the replacement character, any other byte is itself
Utf8Lossy(bytes) ==
  LET Decoded(i) ==
        CASE bytes[i] = "0xC3" /\ i < Len(bytes) /\ bytes[i + 1] = "0xA9" -> "U+00E9"
          [] bytes[i] = "0xA9" /\ i > 1 /\ bytes[i - 1] = "0xC3" -> "second byte"
          [] bytes[i] \in {"0xC3", "0xA9"} -> "U+FFFD"
          [] OTHER -> bytes[i]
  IN SelectSeq([i \in 1..Len(bytes) |-> Decoded(i)], LAMBDA c : c # "second byte")

\* Mutant: the buffer is set to the new text, the partial line before it is lost
PushStr_Replace(buffer, bytes) == Utf8Lossy(bytes)

\* buffer.push_str(&String::from_utf8_lossy(&bytes))
PushStr(buffer, bytes) == buffer \o Utf8Lossy(bytes)

\* buffer.find('\n'): the first position, 0 for None
Find(buffer, ch) ==
  IF \E i \in DOMAIN buffer : buffer[i] = ch
  THEN SetMin({i \in DOMAIN buffer : buffer[i] = ch})
  ELSE 0

\* The stream's items: Result<StreamChunk>
OkItem(chunk) == [ok |-> TRUE, chunk |-> chunk, err |-> <<>>]
ErrItem(e) == [ok |-> FALSE, chunk |-> <<>>, err |-> e]

\* Mutant: the text is looked for at the top of the record
ChunkOfValue_TopLevelContent(json) ==
  StreamChunk(IF Index(json, "content").t = "str" THEN Index(json, "content").s ELSE "",
              IF Index(json, "done").t = "bool" THEN Index(json, "done").s = "true" ELSE FALSE)

\* StreamChunk { delta: json["message"]["content"].as_str().unwrap_or(""),
\*               done: json["done"].as_bool().unwrap_or(false) }
ChunkOfValue(json) ==
  LET content == Index(Index(json, "message"), "content")
      done == Index(json, "done")
  IN StreamChunk(IF content.t = "str" THEN content.s ELSE "",
                 IF done.t = "bool" THEN done.s = "true" ELSE FALSE)

\* Mutant: a line that is not JSON is reported as an error item
OnLine_ReportParseError(line) ==
  IF line = <<>> THEN <<>>
  ELSE IF StreamFromStr(line).t # "invalid" THEN <<OkItem(ChunkOfValue(StreamFromStr(line)))>>
       ELSE <<ErrItem(<<"Stream error: ", "invalid JSON">>)>>

\* What one extracted line yields: nothing when empty or not JSON, else its chunk
OnLine(line) ==
  IF line = <<>> THEN <<>>
  ELSE IF StreamFromStr(line).t # "invalid" THEN <<OkItem(ChunkOfValue(StreamFromStr(line)))>>
       ELSE <<>>

\* while let Some(pos) = buffer.find('\n') { .. }: the buffer left, the items yielded
RECURSIVE DrainLines(_, _)
DrainLines(buffer, items) ==
  LET pos == Find(buffer, "\n")
  IN IF pos = 0 THEN [buffer |-> buffer, items |-> items]
     ELSE DrainLines(SubSeq(buffer, pos + 1, Len(buffer)),
                     items \o OnLine(SubSeq(buffer, 1, pos - 1)))

\* Mutant: the loop goes on reading after the error item
OnReadError_Continue(out) ==
  [out |-> Append(out, ErrItem(<<"Stream error: ", "connection reset">>)), ended |-> FALSE]

\* Err(e) => { yield Err(anyhow!("Stream error: {}", e)); break; }
OnReadError(out) ==
  [out |-> Append(out, ErrItem(<<"Stream error: ", "connection reset">>)), ended |-> TRUE]

\* A response body: its lines, each ended by "\n", the last one only if terminated
RECURSIVE JoinLines(_)
JoinLines(lines) ==
  IF lines = <<>> THEN <<>> ELSE Head(lines) \o <<"\n">> \o JoinLines(Tail(lines))
Body(input) ==
  LET all == JoinLines(input.lines)
  IN IF input.terminated THEN all ELSE SubSeq(all, 1, Len(all) - 1)

TwoLines == [lines |-> <<RecordHel, RecordLo>>, terminated |-> TRUE]
WithCutLine == [lines |-> <<RecordHel, RecordCut, RecordLo>>, terminated |-> TRUE]
WithEmptyLine == [lines |-> <<RecordHel, <<>>, RecordBare>>, terminated |-> TRUE]
Unterminated == [lines |-> <<RecordHel, RecordLo>>, terminated |-> FALSE]
WithAccent == [lines |-> <<RecordAccentBytes>>, terminated |-> TRUE]
StreamInputs == {TwoLines, WithCutLine, WithEmptyLine, Unterminated, WithAccent}

InitStream ==
  /\ file = Missing
  /\ now = 0
  /\ slot = None
  /\ lock = Free
  /\ localId = ""
  /\ uuids = 0
  /\ pc = [c \in Callers |-> "idle"]
  /\ loc = [c \in Callers |-> IdleLoc]
  /\ hist = <<>>
  /\ stores = <<>>
  /\ nops = 0
  /\ sel = <<>>
  /\ call = <<>>
  /\ \E input \in StreamInputs :
       stream = [input |-> input, rest |-> Body(input), reads |-> <<>>, buffer |-> <<>>,
                 out |-> <<>>, ended |-> FALSE, failed |-> FALSE]

\* byte_stream.next() gives Ok(bytes), the next k bytes of the body: append them,
\* then take every complete line out of the buffer
NetRead(k) ==
  /\ ~stream.ended
  /\ Len(stream.reads) + 1 < MaxChunks \/ k = Len(stream.rest)
  /\ LET r == DrainLines(PushStr(stream.buffer, SubSeq(stream.rest, 1, k)), <<>>)
     IN stream' = [stream EXCEPT !.rest = SubSeq(@, k + 1, Len(@)),
                                 !.reads = Append(@, k),
                                 !.buffer = r.buffer,
                                 !.out = @ \o r.items]
  /\ UNCHANGED <<file, now, slot, lock, localId, uuids, pc, loc, hist, stores, nops,
                 sel, call>>

\* byte_stream.next() gives Err(e)
NetError ==
  /\ ~stream.ended /\ ~stream.failed
  /\ LET r == OnReadError(stream.out)
     IN stream' = [stream EXCEPT !.out = r.out, !.ended = r.ended, !.failed = TRUE]
  /\ UNCHANGED <<file, now, slot, lock, localId, uuids, pc, loc, hist, stores, nops,
                 sel, call>>

\* Mutant: what is left in the buffer is handled as a last line
NetEnd_FlushBuffer ==
  /\ ~stream.ended
  /\ stream.rest = <<>>
  /\ stream' = [stream EXCEPT !.ended = TRUE, !.out = @ \o OnLine(stream.buffer),
                              !.buffer = <<>>]
  /\ UNCHANGED <<file, now, slot, lock, localId, uuids, pc, loc, hist, stores, nops,
                 sel, call>>

\* byte_stream.next() gives None: the loop and the stream end
NetEnd ==
  /\ ~stream.ended
  /\ stream.rest = <<>>
  /\ stream' = [stream EXCEPT !.ended = TRUE]
  /\ UNCHANGED <<file, now, slot, lock, localId, uuids, pc, loc, hist, stores, nops,
                 sel, call>>

NextStream ==
  \/ \E k \in 1..Len(stream.rest) : NetRead(k)
  \/ NetError
  \/ NetEnd

SpecStream == InitStream /\ [][NextStream]_vars

(***************************************************************************)
(* SpecDialect: chat of OpenAIProvider (dialect A) and of AnthropicProvider  *)
(* (dialect B): the request body of a message list, the result of a response *)
(***************************************************************************)
JArr(items) == [t |-> "arr", s |-> "", f |-> items]
EmptyObj == JObj([x \in {} |-> JNull])
\* json.get(i) on an array
ArrGet(v, i) == IF v.t = "arr" /\ i \in DOMAIN v.f THEN Some(v.f[i]) ELSE None
\* json.get(name).is_some()
Has(v, name) == IsSome(JsonGet(v, name))
\* v.as_str().unwrap_or(d)
StrOr(v, d) == IF v.t = "str" THEN v.s ELSE d
\* MapSeq: iter().map(..).collect()
MapObj(v, name, x) == JObj(MapInsert(v.f, name, x))

\* Message { role, content, tool_calls, tool_call_id }
Message(role, content, tool_calls, tool_call_id) ==
  [role |-> role, content |-> content, tool_calls |-> tool_calls,
   tool_call_id |-> tool_call_id]
ToolCall(id, name, arguments) == [id |-> id, name |-> name, arguments |-> arguments]

\* The argument strings of the model, and serde_json::from_str / to_string on them
ArgsX1 == "{\"x\":1}"
ArgsValue(arguments) ==
  IF arguments = ArgsX1 THEN JObj([x |-> JNum]) ELSE NotJson
ValueToString(v) ==
  IF v.t = "obj" /\ DOMAIN v.f = {"x"} THEN ArgsX1
  ELSE IF v.t = "obj" /\ DOMAIN v.f = {} THEN "{}"
  ELSE IF v.t = "null" THEN "null" ELSE "?"

CallF == ToolCall("1", "f", ArgsX1)
CallG == ToolCall("", "g", "not json")

\* The conversations sent through the two dialects
DialectInputs ==
  << <<Message("user", "hi", None, None)>>,
     <<Message("system", "be brief", None, None), Message("user", "q1", None, None)>>,
     <<Message("system", "be brief", None, None), Message("user", "q1", None, None),
       Message("assistant", "", Some(<<CallF>>), None),
       Message("tool", "42", None, Some("1")),
       Message("system", "be long", None, None), Message("user", "q2", None, None)>>,
     <<Message("user", "q1", None, None),
       Message("assistant", "", Some(<<CallF, CallG>>), None),
       Message("tool", "42", None, Some("1")), Message("tool", "lost", None, None)>>,
     <<Message("user", "q1", None, None), Message("system", "", None, None),
       Message("assistant", "r1", Some(<<>>), None)>>,
     <<Message("assistant", "r0", None, None), Message("user", "q1", None, None),
       Message("assistant", "", Some(<<CallG>>), None)>> >>

ToolLists == <<None, Some(<<>>), Some(SomeTools)>>

\* Dialect A -----------------------------------------------------------------
\* OpenAIProvider::format_tools
FormatToolsA(tools) ==
  [i \in DOMAIN tools |->
     JObj([type |-> JStr("function"),
           function |-> JObj([name |-> JStr(tools[i].name),
                              description |-> JStr(tools[i].description),
                              parameters |-> JStr(tools[i].parameters)])])]

\* one element of a request message's "tool_calls"
FormatToolCallA(tc) ==
  JObj([id |-> JStr(tc.id), type |-> JStr("function"),
        function |-> JObj([name |-> JStr(tc.name), arguments |-> JStr(tc.arguments)])])

\* OpenAIProvider::format_messages, one message
FormatMessageA(m) ==
  LET base == JObj([role |-> JStr(m.role), content |-> JStr(m.content)])
      withCalls ==
        IF IsSome(m.tool_calls)
        THEN MapObj(base, "tool_calls",
                    JArr([i \in DOMAIN Unwrap(m.tool_calls) |->
                            FormatToolCallA(Unwrap(m.tool_calls)[i])]))
        ELSE base
  IN IF IsSome(m.tool_call_id)
     THEN MapObj(withCalls, "tool_call_id", JStr(Unwrap(m.tool_call_id)))
     ELSE withCalls

FormatMessagesA(messages) == [i \in DOMAIN messages |-> FormatMessageA(messages[i])]

\* OpenAIProvider::chat: the request body
RequestA(model, messages, tools) ==
  LET body == JObj([model |-> JStr(model), messages |-> JArr(FormatMessagesA(messages))])
  IN IF IsSome(tools) /\ Unwrap(tools) # <<>>
     THEN MapObj(body, "tools", JArr(FormatToolsA(Unwrap(tools)))) ELSE body

\* Mutant: the arguments are looked for beside the function, not inside it
ParseToolCallA_FlatArguments(tc) ==
  ToolCall(StrOr(Index(tc, "id"), ""),
           StrOr(Index(Index(tc, "function"), "name"), ""),
           StrOr(Index(tc, "arguments"), "{}"))

\* OpenAIProvider::chat: one element of the response's "tool_calls"
ParseToolCallA(tc) ==
  ToolCall(StrOr(Index(tc, "id"), ""),
           StrOr(Index(Index(tc, "function"), "name"), ""),
           StrOr(Index(Index(tc, "function"), "arguments"), "{}"))

\* the response below its error check: choices[0].message
ParseChoiceA(body) ==
  LET choice == ArrGet(Index(body, "choices"), 1)
      message == Index(Unwrap(choice), "message")
      calls == Index(message, "tool_calls")
  IN IF choice = None THEN ChatErr(<<"No choices in response">>)
     ELSE IF Has(message, "tool_calls") /\ calls.t = "arr" /\ calls.f # <<>>
          THEN ToolCalls([i \in DOMAIN calls.f |-> ParseToolCallA(calls.f[i])])
          ELSE Text(<<StrOr(Index(message, "content"), "")>>)

\* Mutant: the error member is looked at only when there are no choices
ParseResponseA_ChoicesFirst(body) ==
  IF IsSome(ArrGet(Index(body, "choices"), 1)) THEN ParseChoiceA(body)
  ELSE IF Has(body, "error")
       THEN ChatErr(<<"OpenAI API error: ", ValueToString(Index(body, "error"))>>)
       ELSE ParseChoiceA(body)

\* OpenAIProvider::chat: what it makes of the response body
ParseResponseA(body) ==
  IF Has(body, "error")
  THEN ChatErr(<<"OpenAI API error: ", ValueToString(Index(body, "error"))>>)
  ELSE ParseChoiceA(body)

\* Dialect B -----------------------------------------------------------------
\* AnthropicProvider::format_tools
FormatToolsB(tools) ==
  [i \in DOMAIN tools |->
     JObj([name |-> JStr(tools[i].name), description |-> JStr(tools[i].description),
           input_schema |-> JStr(tools[i].parameters)])]

\* "input": serde_json::from_str(&tc.arguments).unwrap_or(json!({}))
FormatToolUseB(tc) ==
  JObj([type |-> JStr("tool_use"), id |-> JStr(tc.id), name |-> JStr(tc.name),
        input |-> IF ArgsValue(tc.arguments).t # "invalid"
                  THEN ArgsValue(tc.arguments) ELSE EmptyObj])

\* AnthropicProvider::format_messages, what one message pushes
FormatMessageB(m) ==
  CASE m.role = "system" -> <<>>
    [] m.role = "user" -> <<JObj([role |-> JStr("user"), content |-> JStr(m.content)])>>
    [] m.role = "assistant" ->
         IF IsSome(m.tool_calls)
         THEN <<JObj([role |-> JStr("assistant"),
                      content |-> JArr([i \in DOMAIN Unwrap(m.tool_calls) |->
                                          FormatToolUseB(Unwrap(m.tool_calls)[i])])])>>
         ELSE <<JObj([role |-> JStr("assistant"), content |-> JStr(m.content)])>>
    [] OTHER ->
         IF IsSome(m.tool_call_id)
         THEN <<JObj([role |-> JStr("user"),
                      content |-> JArr(<<JObj([type |-> JStr("tool_result"),
                                               tool_use_id |-> JStr(Unwrap(m.tool_call_id)),
                                               content |-> JStr(m.content)])>>)])>>
         ELSE <<>>

\* AnthropicProvider::format_messages: the loop over the messages, from the left;
\* every System message overwrites system_prompt
RECURSIVE FormatMessagesB(_, _, _)
FormatMessagesB(messages, system_prompt, formatted) ==
  IF messages = <<>> THEN [system_prompt |-> system_prompt, formatted |-> formatted]
  ELSE LET m == Head(messages)
       IN FormatMessagesB(Tail(messages),
                          IF m.role = "system" THEN Some(m.content) ELSE system_prompt,
                          formatted \o FormatMessageB(m))

\* AnthropicProvider::chat: the request body
RequestB(model, messages, tools) ==
  LET fm == FormatMessagesB(messages, None, <<>>)
      body == JObj([model |-> JStr(model), max_tokens |-> JNum,
                    messages |-> JArr(fm.formatted)])
      withSystem == IF IsSome(fm.system_prompt)
                    THEN MapObj(body, "system", JStr(Unwrap(fm.system_prompt))) ELSE body
  IN IF IsSome(tools) /\ Unwrap(tools) # <<>>
     THEN MapObj(withSystem, "tools", JArr(FormatToolsB(Unwrap(tools)))) ELSE withSystem

\* the content blocks of one type, in order
BlocksOfType(content, type) ==
  SelectSeq(content, LAMBDA c : Index(c, "type").t = "str" /\ Index(c, "type").s = type)

\* text blocks joined: .collect::<Vec<_>>().join("")
RECURSIVE JoinText(_)
JoinText(blocks) ==
  IF blocks = <<>> THEN <<>>
  ELSE <<StrOr(Index(Head(blocks), "text"), "")>> \o JoinText(Tail(blocks))

\* AnthropicProvider::chat: what it makes of the response body
ParseResponseB(body) ==
  LET content == Index(body, "content")
      uses == BlocksOfType(content.f, "tool_use")
  IN IF Has(body, "error")
     THEN ChatErr(<<"Anthropic API error: ", ValueToString(Index(body, "error"))>>)
     ELSE IF content.t # "arr" THEN ChatErr(<<"No content in response">>)
     ELSE IF uses # <<>>
          THEN ToolCalls([i \in DOMAIN uses |->
                            ToolCall(StrOr(Index(uses[i], "id"), ""),
                                     StrOr(Index(uses[i], "name"), ""),
                                     ValueToString(Index(uses[i], "input")))])
          ELSE Text(JoinText(BlocksOfType(content.f, "text")))

\* The servers' answers ------------------------------------------------------
ErrorPayload == JObj([x |-> JNum])
TextChoices == JArr(<<JObj([message |-> JObj([role |-> JStr("assistant"),
                                               content |-> JStr("hello")])])>>)
TextContent == JArr(<<JObj([type |-> JStr("text"), text |-> JStr("hel")]),
                      JObj([type |-> JStr("text"), text |-> JStr("lo")])>>)
ToolUseContent == JArr(<<JObj([type |-> JStr("text"), text |-> JStr("let me see")]),
                         FormatToolUseB(CallF)>>)

\* the assistant messages of a dialect A request that carry tool calls, each as
\* the message of a response's first choice
EchoesA(request) ==
  LET ms == SelectSeq(Index(request, "messages").f, LAMBDA m : Has(m, "tool_calls"))
  IN [i \in DOMAIN ms |-> JObj([choices |-> JArr(<<JObj([message |-> ms[i]])>>)])]

FixedResponsesA ==
  << JObj([choices |-> TextChoices]),
     JObj([error |-> ErrorPayload]),
     JObj([error |-> ErrorPayload, choices |-> TextChoices]),
     JObj([error |-> JNull, choices |-> TextChoices]),
     JObj([choices |-> JArr(<<>>)]),
     EmptyObj >>

ResponsesA(request) == FixedResponsesA \o EchoesA(request)

ResponsesB ==
  << JObj([content |-> TextContent]),
     JObj([content |-> ToolUseContent]),
     JObj([error |-> ErrorPayload]),
     JObj([error |-> ErrorPayload, content |-> TextContent]),
     JObj([error |-> JNull, content |-> ToolUseContent]),
     EmptyObj >>

InitDialect ==
  /\ file = Missing
  /\ now = 0
  /\ slot = None
  /\ lock = Free
  /\ localId = ""
  /\ uuids = 0
  /\ pc = [c \in Callers |-> "idle"]
  /\ loc = [c \in Callers |-> IdleLoc]
  /\ hist = <<>>
  /\ stores = <<>>
  /\ nops = 0
  /\ sel = <<>>
  /\ \E d \in {"A", "B"}, i \in DOMAIN DialectInputs, t \in DOMAIN ToolLists :
       call = [dialect |-> d, messages |-> DialectInputs[i], tools |-> ToolLists[t],
               at |-> "start", answer |-> 0, request |-> JNull, response |-> JNull,
               result |-> ChatErr(<<"pending">>)]
  /\ stream = <<>>

\* OpenAIProvider::chat: build the body, post it, parse answer n of the server
ChatA(n) ==
  /\ call.dialect = "A" /\ call.at = "start"
  /\ LET request == RequestA("gpt-4", call.messages, call.tools)
     IN /\ n \in DOMAIN ResponsesA(request)
        /\ call' = [call EXCEPT !.at = "returned", !.answer = n, !.request = request,
                                !.response = ResponsesA(request)[n],
                                !.result = ParseResponseA(ResponsesA(request)[n])]
  /\ UNCHANGED <<file, now, slot, lock, localId, uuids, pc, loc, hist, stores, nops,
                 sel, stream>>

\* AnthropicProvider::chat: build the body, post it, parse answer n of the server
ChatB(n) ==
  /\ call.dialect = "B" /\ call.at = "start"
  /\ n \in DOMAIN ResponsesB
  /\ call' = [call EXCEPT !.at = "returned", !.answer = n,
                          !.request = RequestB("claude-3-opus", call.messages, call.tools),
                          !.response = ResponsesB[n],
                          !.result = ParseResponseB(ResponsesB[n])]
  /\ UNCHANGED <<file, now, slot, lock, localId, uuids, pc, loc, hist, stores, nops,
                 sel, stream>>

NextDialect ==
  \/ \E n \in DOMAIN ResponsesA(RequestA("gpt-4", call.messages, call.tools)) : ChatA(n)
  \/ \E n \in DOMAIN ResponsesB : ChatB(n)

SpecDialect == InitDialect /\ [][NextDialect]_vars

(***************************************************************************)
(* SpecNormalize: normalize_claude_model applied to a requested model name, *)
(* and again to its own result                                              *)
(***************************************************************************)
MaxNormalize == 2

\* The requested names: the names of the match arms and names outside them, in
\* lower case, capitalised, in upper case and with every word capitalised
ModelNames ==
  { "opus", "Opus", "OPUS", "opus-4.5", "Opus-4.5", "OPUS-4.5", "opus-4", "Opus-4",
    "OPUS-4", "claude-opus-4-5", "Claude-opus-4-5", "CLAUDE-OPUS-4-5",
    "Claude-Opus-4-5", "sonnet", "Sonnet", "SONNET", "sonnet-4.5", "Sonnet-4.5",
    "SONNET-4.5", "sonnet-4.1", "Sonnet-4.1", "SONNET-4.1", "claude-sonnet-4-5",
    "Claude-sonnet-4-5", "CLAUDE-SONNET-4-5", "Claude-Sonnet-4-5", "haiku", "Haiku",
    "HAIKU", "haiku-3.5", "Haiku-3.5", "HAIKU-3.5", "claude-haiku-3-5",
    "Claude-haiku-3-5", "CLAUDE-HAIKU-3-5", "Claude-Haiku-3-5", "llama3", "Llama3",
    "LLAMA3", "gpt-4", "Gpt-4", "GPT-4", "opus-5", "Opus-5", "OPUS-5", "claude-opus",
    "Claude-opus", "CLAUDE-OPUS", "Claude-Opus", "my-sonnet", "My-sonnet",
    "MY-SONNET", "My-Sonnet", "" }

InitNormalize ==
  /\ file = Missing
  /\ now = 0
  /\ slot = None
  /\ lock = Free
  /\ localId = ""
  /\ uuids = 0
  /\ pc = [c \in Callers |-> "idle"]
  /\ loc = [c \in Callers |-> IdleLoc]
  /\ hist = <<>>
  /\ stores = <<>>
  /\ nops = 0
  /\ sel = <<>>
  /\ \E m \in ModelNames : call = [model |-> m, values |-> <<>>]
  /\ stream = <<>>

\* normalize_claude_model on the requested name, then on the last result
Normalize ==
  /\ Len(call.values) < MaxNormalize
  /\ call' = [call EXCEPT !.values =
                Append(@, normalize_claude_model(IF @ = <<>> THEN call.model
                                                 ELSE @[Len(@)]))]
  /\ UNCHANGED <<file, now, slot, lock, localId, uuids, pc, loc, hist, stores, nops,
                 sel, stream>>

NextNormalize == Normalize

SpecNormalize == InitNormalize /\ [][NextNormalize]_vars

(***************************************************************************)
(* Properties                                                              *)
(***************************************************************************)
Last(h) == h[Len(h)]

\* a flag of the argument list: any position before the final prompt
HasFlag(args, flag) == \E i \in 1..(Len(args) - 1) : args[i] = flag
HasPair(args, flag, value) ==
  \E i \in 1..(Len(args) - 2) : args[i] = flag /\ args[i + 1] = value
IsFirstTurn(args) ==
  HasFlag(args, "--model") /\ HasFlag(args, "--session-id") /\ ~HasFlag(args, "--resume")
IsResume(args, token) ==
  /\ HasPair(args, "--resume", token)
  /\ ~HasFlag(args, "--model")
  /\ ~HasFlag(args, "--session-id")

\* The token a reloaded store gives for ("main", "claude-cli")
Reloaded(f) == StoreGetCliSessionId(Load(f).entries, MainKey, CLAUDE_CLI_PROVIDER)

\* The token the file itself holds for ("main", "claude-cli"), read off the JSON:
\* the per-provider map first, then the legacy field; an empty string is no token
HeldInFile(f) ==
  IF f.kind = "json" /\ (\A k \in DOMAIN f.doc : {"sessionId", "updatedAt"} \subseteq DOMAIN f.doc[k])
     /\ "main" \in DOMAIN f.doc
  THEN LET o == f.doc["main"]
           inMap == "cliSessionIds" \in DOMAIN o /\ "claude-cli" \in DOMAIN o["cliSessionIds"]
                    /\ o["cliSessionIds"]["claude-cli"] # ""
           inLegacy == "claudeCliSessionId" \in DOMAIN o /\ o["claudeCliSessionId"] # ""
       IN IF inMap THEN <<o["cliSessionIds"]["claude-cli"]>>
          ELSE IF inLegacy THEN <<o["claudeCliSessionId"]>> ELSE <<>>
  ELSE <<>>

\* C1: an invocation that read an empty slot carries --model and --session-id and
\* no --resume; the invocation that follows a chat return with token T carries
\* --resume T and neither --model nor --session-id.
C1_FirstThenResume ==
  \A i \in DOMAIN hist :
    hist[i].t = "invoke" =>
      /\ hist[i].tok = None => IsFirstTurn(hist[i].args)
      /\ (i > 1 /\ hist[i - 1].t = "chat_ok" /\ IsSome(hist[i - 1].tok))
           => IsResume(hist[i].args, Unwrap(hist[i - 1].tok))

C1_Witness ==
  /\ Len(hist) >= 3
  /\ hist[1].t = "invoke" /\ hist[1].tok = None /\ IsFirstTurn(hist[1].args)
  /\ hist[2].t = "chat_ok" /\ hist[2].tok = Some("t1")
  /\ hist[3].t = "invoke" /\ IsResume(hist[3].args, "t1")

\* C2 (as claimed): the first chat invocation after a successful clear_session is
\* a first turn, whatever was in flight while clear_session ran.
C2_ClearThenFirstTurn ==
  \A i, j \in DOMAIN hist :
    ( /\ i < j
      /\ hist[i].t = "clear_ok"
      /\ hist[j].t = "invoke"
      /\ \A k \in (i + 1)..(j - 1) : hist[k].t \notin {"invoke", "new"} )
    => IsFirstTurn(hist[j].args)

\* C3: right after construction the slot is the token the file holds for
\* ("main", "claude-cli"), absent when it holds none, and the first invocation
\* carries --resume with that token, or --session-id when there is none.
C3_LoadedAtConstruction ==
  /\ (hist = <<>> \/ Last(hist).t = "new") => slot = HeldInFile(file)
  /\ (hist # <<>> /\ Last(hist).t = "invoke"
        /\ (Len(hist) = 1 \/ hist[Len(hist) - 1].t = "new"))
       => IF IsSome(HeldInFile(file))
          THEN IsResume(Last(hist).args, Unwrap(HeldInFile(file)))
          ELSE IsFirstTurn(Last(hist).args)

C3_Witness ==
  /\ Len(hist) >= 4
  /\ hist[2].t = "chat_ok" /\ hist[2].tok = Some("t2")
  /\ hist[3].t = "new" /\ hist[3].tok = Some("t2")
  /\ hist[4].t = "invoke" /\ IsResume(hist[4].args, "t2")

\* C4 (as claimed): after a successful set_cli_session_id(key, seed, provider, token),
\* a store loaded from the file gives that token for (key, provider).
C4_SetThenReload ==
  (hist # <<>> /\ Last(hist).t = "set_ok")
    => LET a == Last(hist).args
       IN StoreGetCliSessionId(Load(file).entries, a[1], a[2]) = Some(a[3])

\* C4 (amended): the same for every token that is not the empty string.
C4_SetThenReloadNonEmpty ==
  (hist # <<>> /\ Last(hist).t = "set_ok" /\ Last(hist).args[3] # "")
    => LET a == Last(hist).args
       IN StoreGetCliSessionId(Load(file).entries, a[1], a[2]) = Some(a[3])

C4_Witness ==
  /\ hist # <<>> /\ Last(hist).t = "set_ok"
  /\ Last(hist).args = <<"side", "codex-cli", "t2">>
  /\ StoreGetCliSessionId(Load(file).entries, "side", "codex-cli") = Some("t2")
  /\ stores[2].loaded

\* C5: a clear_session that returns Ok leaves the slot absent and the file without
\* a token for ("main", "claude-cli"), in the map and in the legacy field, so a
\* reloaded store gives none; the "main" row is there with a timestamp, and with
\* the session id it had when it existed before.
C5_ClearStep ==
  (Len(hist') = Len(hist) + 1 /\ Last(hist').t = "clear_ok") =>
    /\ slot' = None
    /\ Reloaded(file') = None
    /\ file'.kind = "json" /\ "main" \in DOMAIN file'.doc
    /\ LET o == file'.doc["main"]
       IN /\ "claudeCliSessionId" \notin DOMAIN o
          /\ "cliSessionIds" \in DOMAIN o => "claude-cli" \notin DOMAIN o["cliSessionIds"]
          /\ {"sessionId", "updatedAt"} \subseteq DOMAIN o
          /\ "main" \in DOMAIN FromStr(file) => o["sessionId"] = FromStr(file)["main"].session_id

\* C5: every step in which clear_session returns Ok is such a step.
C5_ClearFrame == [][C5_ClearStep]_vars

C5_Witness ==
  /\ Len(hist) >= 3
  /\ hist[2].t = "chat_ok" /\ hist[2].tok = Some("t1") /\ hist[2].io = "ok"
  /\ hist[3].t = "clear_ok"
  /\ slot = None /\ Reloaded(file) = None
  /\ file.kind = "json" /\ file.doc["main"]["sessionId"] = "s0"

\* C6: clear_session fails only when the file cannot be read or written, never
\* because there was no token or no entry; after any clear_session the slot is
\* absent, and after a second successful one in a row so is the persisted token.
\* (An unreadable file stays unreadable: every writer loads it first and gives up.)
C6_ClearTwice ==
  \A i \in DOMAIN hist :
    /\ hist[i].t = "clear_err" => (hist[i].io # "ok" \/ file.kind = "unreadable")
    /\ (i = Len(hist) /\ hist[i].t \in {"clear_ok", "clear_err"}) => slot = None
    /\ (i = Len(hist) /\ i > 1 /\ hist[i].t = "clear_ok" /\ hist[i - 1].t = "clear_ok")
         => (Reloaded(file) = None /\ HeldInFile(file) = None)

C6_Witness ==
  /\ Len(hist) = 2
  /\ hist[1].t = "clear_ok" /\ hist[2].t = "clear_ok"
  /\ slot = None /\ Reloaded(file) = None

\* C7: a chat whose command exits with a non-zero status returns an error that
\* carries the stderr text, and no step of that call changes the slot or the file.
C7_FailStep ==
  \A c \in Callers :
    /\ \A out \in ChatOutputs :
         (out.kind = "failed" /\ ChatExit(c, out)) =>
           /\ slot' = slot /\ file' = file
           /\ Last(hist').t = "chat_err"
           /\ Last(hist').text = <<"Claude CLI failed: ">> \o out.stderr
           /\ pc'[c] = "idle"
    /\ (pc[c] \in {"idle", "read"} /\ pc'[c] \in {"read", "running"} /\ pc'[c] # pc[c])
         => (slot' = slot /\ file' = file)

\* C7: every step of a chat that fails on a non-zero status is such a step.
C7_FailureFrame == [][C7_FailStep]_vars

C7_Witness ==
  /\ hist # <<>> /\ Last(hist).t = "chat_err"
  /\ Last(hist).text = <<"Claude CLI failed: ", "boom", "\n">>
  /\ IsSome(slot) /\ Reloaded(file) = slot

\* C8: when the store write after a turn with a new token fails, chat still
\* returns Text(response) and the slot holds the new token.
SaveFails(f, io) == io # "ok" \/ f.kind = "unreadable"

C8_WriteStep ==
  \A c \in Callers, io \in IoOutcomes :
    (ChatWrite(c, io) /\ SaveFails(file, io)) =>
      /\ Last(hist').t = "chat_ok"
      /\ Last(hist').text = loc[c].text
      /\ slot' = loc[c].session_id

\* C8: every step in which chat's store write fails is such a step.
C8_StoreFailureSwallowed == [][C8_WriteStep]_vars

C8_Witness ==
  /\ hist # <<>> /\ Last(hist).t = "chat_ok" /\ Last(hist).tok = Some("t1")
  /\ Last(hist).io # "ok"
  /\ Last(hist).text = <<"hi">>
  /\ slot = Some("t1") /\ Reloaded(file) # Some("t1")

\* C9 (as claimed): after a turn persisted its new token, the "main" row holds the
\* token under "claude-cli" and its session id is the provider's own identifier.
C9_PersistedUnderLocalId ==
  (hist # <<>> /\ Last(hist).t = "chat_ok" /\ IsSome(Last(hist).tok)
     /\ Last(hist).io = "ok" /\ file.kind # "unreadable")
    => /\ file.kind = "json" /\ "main" \in DOMAIN file.doc
       /\ "cliSessionIds" \in DOMAIN file.doc["main"]
       /\ "claude-cli" \in DOMAIN file.doc["main"]["cliSessionIds"]
       /\ file.doc["main"]["cliSessionIds"]["claude-cli"] = Unwrap(Last(hist).tok)
       /\ file.doc["main"]["sessionId"] = localId

\* C10: the slot is read and written only by the caller that holds the lock, and
\* a caller whose command is running, or that waits to write, does not hold it.
LockDiscipline ==
  \A c \in Callers :
    /\ pc[c] \in {"read", "write", "clearing"} => lock = c
    /\ pc[c] \in {"idle", "running", "lock_w"} => lock # c

SlotAccessStep ==
  /\ (slot' # slot /\ Last(hist').t # "new") => (lock \in Callers /\ pc'[lock] = "idle")
  /\ \A c \in Callers : ChatRead(c) => (lock = c /\ Last(hist').tok = slot)

\* C10: the lock discipline holds in every state and every slot access keeps it.
C10_SlotUnderLock == []LockDiscipline /\ [][SlotAccessStep]_vars

C10_Witness ==
  /\ Len(hist) = 2
  /\ hist[1].t = "invoke" /\ hist[2].t = "clear_ok"
  /\ \E c \in Callers : pc[c] = "running"
  /\ lock = Free

\* C11: once the mutex is poisoned it stays so; from then on no caller gets past a
\* lock(): a call that starts returns "Session lock poisoned" in that step, no
\* command is started, and the slot and the file are neither read into a call nor
\* written. Only a command that was already running returns, as before.
C11_PoisonedStep ==
  lock = Poisoned =>
    /\ lock' = Poisoned /\ slot' = slot /\ file' = file
    /\ \A c \in Callers :
         /\ pc[c] = "idle" => pc'[c] = "idle"
         /\ pc'[c] \notin {"read", "write", "clearing"}
         /\ pc[c] = "lock_w" /\ pc'[c] # pc[c]
              => (pc'[c] = "idle" /\ Last(hist') = LockError("chat_err"))
    /\ hist' # hist =>
         /\ Last(hist').t \notin {"invoke", "clear_ok"}
         /\ (\A c \in Callers : pc'[c] = pc[c])
              => Last(hist') \in {LockError("chat_err"), LockError("clear_err")}
         /\ Last(hist').t = "chat_ok" => \E c \in Callers : pc[c] = "running" /\ pc'[c] = "idle"

C11_PoisonedLockErrors == [][C11_PoisonedStep]_vars

C11_Witness ==
  /\ lock = Poisoned
  /\ Len(hist) >= 4
  /\ hist[Len(hist) - 2].t = "panic" /\ IsSome(hist[Len(hist) - 2].tok)
  /\ hist[Len(hist) - 1] = LockError("chat_err")
  /\ Last(hist) = LockError("clear_err")
  /\ IsSome(slot)

\* The selections made so far
Made == IF sel = <<>> THEN <<>> ELSE sel.made
OpenAIFamily(model) == StartsWith(model, GptPrefix) \/ StartsWith(model, O1Prefix)

\* C12: for an identifier of the OpenAI family the selector gives an error when
\* the configuration has no OpenAI section, whatever else is configured, and the
\* OpenAI provider with the section's credentials and the identifier when it has.
C12_OpenAIFamily ==
  \A i \in DOMAIN Made :
    OpenAIFamily(sel.model) =>
      IF sel.config.openai = None
      THEN ~Made[i].ok /\ Made[i].err = <<"OpenAI provider not configured">>
      ELSE /\ Made[i].ok
           /\ Made[i].provider = [kind |-> "openai", api_key |-> OpenAIConfig.api_key,
                                  base_url |-> OpenAIConfig.base_url, model |-> sel.model]

C12_Witness ==
  /\ Len(Made) = 2
  /\ sel.model = <<"gpt-", "4">>
  /\ sel.config.openai = None /\ IsSome(sel.config.ollama) /\ IsSome(sel.config.claude_cli)
  /\ ~Made[2].ok

\* C13: the selector's result is that of the first rule that matches, of
\*   1. "claude-cli/" prefix: the subprocess provider on the suffix, run with the
\*      configured command ("claude" without a CLI section);
\*   2. OpenAI family: the OpenAI provider, an error without its section;
\*   3. "claude-" prefix: the Anthropic provider, an error without its section;
\*   4. a local endpoint is configured: the local provider on the identifier as is;
\*   5. a CLI section is configured: the subprocess provider on its default model;
\*   6. an error.
C13_Rule(model, config, r) ==
  LET cli == StartsWith(model, CliPrefix)
      oai == OpenAIFamily(model)
      ant == StartsWith(model, ClaudePrefix)
  IN /\ cli =>
          /\ r.ok /\ r.provider.kind = "claude-cli"
          /\ r.provider.model =
               normalize_claude_model(RestToString(SubSeq(model, 3, Len(model))))
          /\ r.provider.command =
               (IF config.claude_cli = None THEN "claude" ELSE ClaudeCliConfig.command)
     /\ (~cli /\ oai) =>
          IF config.openai = None THEN ~r.ok
          ELSE r.ok /\ r.provider.kind = "openai" /\ r.provider.model = model
     /\ (~cli /\ ~oai /\ ant) =>
          IF config.anthropic = None THEN ~r.ok
          ELSE r.ok /\ r.provider.kind = "anthropic" /\ r.provider.model = model
     /\ (~cli /\ ~oai /\ ~ant /\ IsSome(config.ollama)) =>
          /\ r.ok /\ r.provider.kind = "ollama" /\ r.provider.model = model
          /\ r.provider.endpoint = OllamaConfig.endpoint
     /\ (~cli /\ ~oai /\ ~ant /\ config.ollama = None /\ IsSome(config.claude_cli)) =>
          /\ r.ok /\ r.provider.kind = "claude-cli"
          /\ r.provider.model = normalize_claude_model(ClaudeCliConfig.model)
          /\ r.provider.command = ClaudeCliConfig.command
     /\ (~cli /\ ~oai /\ ~ant /\ config.ollama = None /\ config.claude_cli = None) => ~r.ok

C13_FirstMatchingRule ==
  \A i \in DOMAIN Made : C13_Rule(sel.model, sel.config, Made[i])

C13_Witness ==
  /\ Len(Made) = 1
  /\ sel.model = <<"claude-", "cli/", "Opus-4.5">>
  /\ IsSome(sel.config.anthropic) /\ IsSome(sel.config.ollama) /\ sel.config.claude_cli = None
  /\ Made[1].ok /\ Made[1].provider.kind = "claude-cli"
  /\ Made[1].provider.model = "opus" /\ Made[1].provider.command = "claude"

\* C14 (as claimed): two selections on the same identifier and configuration
\* give providers in the same state.
C14_SameInputsSameState ==
  \A i, j \in DOMAIN Made : Made[i] = Made[j]

\* What of a selection's result is configuration: all but the identifier drawn
\* and the token loaded at construction
Configured(r) ==
  IF r.ok /\ r.provider.kind = "claude-cli"
  THEN [r EXCEPT !.provider = [kind |-> @.kind, command |-> @.command, model |-> @.model,
                               workspace |-> @.workspace, session_key |-> @.session_key]]
  ELSE r

\* C14 (amended): two selections on the same identifier and configuration agree
\* on the outcome and on all of the provider's state but the subprocess provider's
\* own identifier and the token it loaded from the session file.
C14_SameInputsSameConfigured ==
  \A i, j \in DOMAIN Made : Configured(Made[i]) = Configured(Made[j])

C14_Witness ==
  /\ Len(Made) = 2
  /\ Made[1].ok /\ Made[1].provider.kind = "claude-cli"
  /\ Made[1].provider.cli_session_id = None
  /\ Made[2].provider.cli_session_id = Some("t1")
  /\ Made[1].provider.localgpt_session_id # Made[2].provider.localgpt_session_id
  /\ Configured(Made[1]) = Configured(Made[2])

\* C15: the provided chat_stream calls chat exactly once, on its messages. On
\* Text(t) it returns a stream that gives the one chunk (t, done) and then ends; on
\* ToolCalls it returns an error and no stream, so nothing is ever delivered.
C15_StreamFallback ==
  (call # <<>> /\ call.op = "chat_stream" /\ call.at # "start") =>
    /\ Len(call.chats) = 1 /\ call.chats[1].messages = call.arg
    /\ call.reply.kind = "text" =>
         /\ call.result.ok /\ call.at = "stream"
         /\ call.items \o call.pending = <<[delta |-> call.reply.text, done |-> TRUE]>>
         /\ call.ended => call.pending = <<>>
    /\ call.reply.kind = "tool_calls" =>
         /\ ~call.result.ok /\ call.at = "returned"
         /\ call.result.err = <<"Tool calls not supported in streaming">>
         /\ call.items = <<>> /\ call.pending = <<>>

C15_Witness ==
  /\ call # <<>> /\ call.op = "chat_stream" /\ call.provider = "claude-cli"
  /\ call.reply = Text(<<" ", "padded", "\n">>)
  /\ call.ended /\ call.items = <<StreamChunk(<<" ", "padded", "\n">>, TRUE)>>

\* C16 (as claimed): on every provider summarize calls chat once on one user message
\* whose content is the same instruction as on the other providers (the one
\* OpenAIProvider::summarize uses), followed by the text; it returns chat's text,
\* and fails on ToolCalls.
C16_UniformSummarize ==
  (call # <<>> /\ call.op = "summarize" /\ call.at = "returned") =>
    /\ Len(call.chats) = 1
    /\ Len(call.chats[1].messages) = 1
    /\ call.chats[1].messages[1].role = "user"
    /\ call.chats[1].messages[1].content = <<SummarizeInstruction("openai")>> \o call.arg
    /\ call.reply.kind = "text" => call.result = OkValue(call.reply.text)
    /\ call.reply.kind = "tool_calls" => ~call.result.ok

\* The bytes delivered so far, and the body's lines they complete
Delivered == Len(Body(stream.input)) - Len(stream.rest)
LinesCompleted ==
  Cardinality({i \in 1..Delivered : Body(stream.input)[i] = "\n"})
IsPrefix(x, y) == Len(x) <= Len(y) /\ SubSeq(y, 1, Len(x)) = x
HelThenLo == <<OkItem(StreamChunk("Hel", FALSE)), OkItem(StreamChunk("lo", TRUE))>>

\* C17: on the body of the two records, however it is delivered, the stream gives
\* the chunks ("Hel", false), ("lo", true) in this order and nothing else: one
\* chunk for each record whose line is complete, all of them once the body is in.
C17_TwoRecords ==
  (stream # <<>> /\ stream.input = TwoLines /\ ~stream.failed) =>
    /\ stream.out = SubSeq(HelThenLo, 1, LinesCompleted)
    /\ stream.ended => stream.out = HelThenLo

C17_Witness ==
  /\ stream # <<>> /\ stream.input = TwoLines
  /\ stream.reads = <<Len(Body(TwoLines))>>
  /\ stream.ended /\ ~stream.failed
  /\ stream.out = HelThenLo

\* The chunk sequence of a body delivered in one network chunk
SingleChunkDelivery(bytes) == DrainLines(PushStr(<<>>, bytes), <<>>).items

\* C18: the two-record body delivered in two network chunks, cut at any offset
\* inside the second line, gives the same chunk sequence as in one network chunk.
C18_SplitInSecondLine ==
  ( /\ stream # <<>> /\ stream.input = TwoLines
    /\ Len(stream.reads) = 2 /\ stream.reads[1] > Len(RecordHel) + 1
    /\ stream.rest = <<>> /\ ~stream.failed )
  => /\ stream.out = SingleChunkDelivery(Body(TwoLines))
     /\ stream.buffer = <<>>

C18_Witness ==
  /\ stream # <<>> /\ stream.input = TwoLines
  /\ stream.reads = <<Len(RecordHel) + 1 + 24, Len(RecordLo) + 1 - 24>>
  /\ stream.ended /\ ~stream.failed
  /\ stream.out = HelThenLo /\ SingleChunkDelivery(Body(TwoLines)) = HelThenLo

\* C19: a complete line that is not JSON gives no item and does not end the
\* stream: on the body with such a line between the two records the stream gives
\* the two records' chunks, in order, and no error item.
C19_UnparseableLineDropped ==
  (stream # <<>> /\ stream.input = WithCutLine /\ ~stream.failed) =>
    /\ \A i \in DOMAIN stream.out : stream.out[i].ok
    /\ IsPrefix(stream.out, HelThenLo)
    /\ LinesCompleted = 2 => (stream.out = <<HelThenLo[1]>> /\ ~stream.ended)
    /\ LinesCompleted = 3 => stream.out = HelThenLo

C19_Witness ==
  /\ stream # <<>> /\ stream.input = WithCutLine
  /\ Len(stream.reads) = 2 /\ stream.reads[1] = Len(RecordHel) + 1 + Len(RecordCut) + 1
  /\ stream.ended /\ ~stream.failed
  /\ stream.out = HelThenLo

\* A line of the body gives a chunk: it is not empty and is JSON once decoded
GivesChunk(line) == line # <<>> /\ StreamFromStr(Utf8Lossy(line)).t # "invalid"

\* C20: after a failed network read the stream has ended; its last item is the
\* error and its only one; before it come the chunks of the lines that the bytes
\* read before had completed, one for each such line that gives a chunk.
C20_ErrorIsLastItem ==
  (stream # <<>> /\ stream.failed) =>
    /\ stream.ended
    /\ stream.out # <<>> /\ ~Last(stream.out).ok
    /\ \A i \in 1..(Len(stream.out) - 1) : stream.out[i].ok
    /\ Len(stream.out) - 1 =
         Cardinality({i \in 1..LinesCompleted : GivesChunk(stream.input.lines[i])})

C20_Witness ==
  /\ stream # <<>> /\ stream.input = TwoLines
  /\ stream.failed /\ stream.ended
  /\ stream.reads = <<50>>
  /\ stream.out = <<HelThenLo[1], ErrItem(<<"Stream error: ", "connection reset">>)>>

(***************************************************************************)
(* Dialects A and B                                                        *)
(***************************************************************************)
Returned(d) == call.dialect = d /\ call.at = "returned"
\* the messages of a list that carry tool calls, in order
WithCalls(messages) == SelectSeq(messages, LAMBDA m : IsSome(m.tool_calls))
SystemMessages(messages) == SelectSeq(messages, LAMBDA m : m.role = "system")

\* C21: a ToolCall attached to an Assistant message, formatted into a dialect A
\* tool_calls element and parsed back by dialect A's response parsing, comes back
\* in a ToolCalls result with the same id, the same name and the same arguments
\* string (hence JSON-equal arguments).
C21_ToolCallRoundTrip ==
  (Returned("A") /\ call.answer > Len(FixedResponsesA)) =>
    LET sent == Unwrap(WithCalls(call.messages)[call.answer - Len(FixedResponsesA)].tool_calls)
    IN sent # <<>> =>
         /\ call.result.kind = "tool_calls"
         /\ Len(call.result.calls) = Len(sent)
         /\ \A i \in DOMAIN sent :
              /\ call.result.calls[i].id = sent[i].id
              /\ call.result.calls[i].name = sent[i].name
              /\ call.result.calls[i].arguments = sent[i].arguments

C21_Witness ==
  /\ Returned("A")
  /\ call.messages = DialectInputs[4]
  /\ call.answer = Len(FixedResponsesA) + 1
  /\ call.result = ToolCalls(<<CallF, CallG>>)

\* C22: dialect B's request has no message with role "system"; when the list has
\* System messages the top-level "system" field is the content of the first of
\* them; with no System message the field is absent.
C22_FirstSystemToField ==
  Returned("B") =>
    LET sys == SystemMessages(call.messages)
        sent == Index(call.request, "messages").f
    IN /\ \A i \in DOMAIN sent : Index(sent[i], "role").s # "system"
       /\ sys # <<>> => /\ Has(call.request, "system")
                        /\ Index(call.request, "system").s = sys[1].content
       /\ sys = <<>> => ~Has(call.request, "system")

\* C23: in both dialects a response body with an "error" member yields an error
\* carrying that payload, also when the body has a well-formed choices array
\* (dialect A) or content array (dialect B) as well.
C23_ErrorEnvelopeFirst ==
  (call.at = "returned" /\ Has(call.response, "error")) =>
    /\ call.result.kind = "err"
    /\ call.result.text =
         << IF call.dialect = "A" THEN "OpenAI API error: " ELSE "Anthropic API error: ",
            ValueToString(Index(call.response, "error")) >>

C23_Witness ==
  /\ Returned("A")
  /\ Has(call.response, "error")
  /\ ParseChoiceA(call.response) = Text(<<"hello">>)
  /\ call.result = ChatErr(<<"OpenAI API error: ", ArgsX1>>)

(***************************************************************************)
(* SessionStore                                                            *)
(***************************************************************************)
Loaded(entries) == [loaded |-> TRUE, entries |-> entries]
LastCall == hist[1].t

\* C24: load_for_agent succeeds with an empty map both when the file is missing
\* and when its content does not parse as a map of session entries.
C24_LoadDegradesToEmpty ==
  [][\A i \in StoreIds :
       (StoreLoad(i) /\ file.kind \in {"missing", "garbage"}) =>
         /\ stores'[i] = Loaded(NoEntries)
         /\ hist'[1].t = "load_ok"]_vars

C24_Witness ==
  /\ file = Garbage
  /\ hist # <<>> /\ LastCall = "load_ok"
  /\ stores[1] = Loaded(NoEntries)
  /\ ~stores[2].loaded

\* instance 1 is the only SessionStore over the file
Alone == stores[1].loaded /\ ~stores[2].loaded
InSync == FromStr(file) = stores[1].entries

\* C25: after any sequence of the store's public operations whose file writes
\* succeed, the map in the file equals the store's in-memory map: no operation
\* with a successful write (or with no write) takes a store out of that state.
C25_FileEqualsMemory ==
  [][(Alone /\ InSync /\ Alone' /\ hist'[1].io # "write_err") => InSync']_vars

\* the step is one of get_or_create, update (clear), set_cli_session_id
EntryOps == {"get_or_create", "set_ok", "set_err", "update_ok", "update_err"}
HeldIn(f, key) == f.kind = "json" /\ key \in DOMAIN f.doc

MapToken(e) ==
  IF "claude-cli" \in DOMAIN e.cli_session_ids
  THEN Some(e.cli_session_ids["claude-cli"]) ELSE None
\* the entries of the stores and of the file
EntriesSeenIn(m) == {m[k] : k \in DOMAIN m}
AllEntries ==
  UNION ({EntriesSeenIn(stores[i].entries) : i \in StoreIds} \cup {EntriesSeenIn(FromStr(file))})
\* a set or clear for a provider other than "claude-cli" leaves every legacy field
OthersKeepMirror ==
  (hist' # <<>> /\ hist'[1].t \in {"set_ok", "set_err", "update_ok", "update_err"}
   /\ hist'[1].args[2] # "claude-cli") =>
     \A i \in StoreIds : \A key \in DOMAIN stores[i].entries :
        /\ key \in DOMAIN stores'[i].entries
        /\ stores'[i].entries[key].claude_cli_session_id
             = stores[i].entries[key].claude_cli_session_id

\* C27 (as claimed): from an empty store, after any set_cli_session_id and clear
\* operations, an entry's legacy field equals its token under "claude-cli" in the
\* map (both absent or the same value), get_cli_session_id("claude-cli") returns
\* that value, and operations for other providers never change the legacy field.
C27_MirrorAndGet ==
  /\ [](\A e \in AllEntries :
          /\ e.claude_cli_session_id = MapToken(e)
          /\ EntryGetCliSessionId(e, "claude-cli") = MapToken(e))
  /\ [][OthersKeepMirror]_vars

\* C27 (amended): the same, with get_cli_session_id("claude-cli") returning that
\* value when it is not the empty string, and none when it is absent or empty.
C27_MirrorAndNonEmptyGet ==
  /\ [](\A e \in AllEntries :
          /\ e.claude_cli_session_id = MapToken(e)
          /\ EntryGetCliSessionId(e, "claude-cli")
               = IF MapToken(e) = Some("") THEN None ELSE MapToken(e))
  /\ [][OthersKeepMirror]_vars

C27_Witness ==
  /\ hist # <<>> /\ LastCall = "set_ok" /\ hist[1].args = <<"main", "codex-cli", "t2">>
  /\ "main" \in DOMAIN stores[1].entries
  /\ stores[1].entries["main"].claude_cli_session_id = Some("t1")
  /\ MapToken(stores[1].entries["main"]) = Some("t1")
  /\ EntryGetCliSessionId(stores[1].entries["main"], "claude-cli") = Some("t1")
  /\ EntryGetCliSessionId(stores[1].entries["main"], "codex-cli") = Some("t2")

\* the step is the successful set or clear named by hist', performed by instance i
Performed(i) ==
  LET a == hist'[1].args
  IN \/ /\ hist'[1].t = "set_ok"
        /\ \E seed \in Seeds : StoreSet(i, a[1], seed, a[2], a[3], "ok")
     \/ /\ hist'[1].t = "update_ok"
        /\ StoreClear(i, a[1], a[2], "ok")

\* C28: when two store instances loaded from the same file each perform an
\* update, the file after a save is the whole in-memory map of the instance that
\* saved, so what the other instance saved after this one loaded is gone from it.
C28_LastWriterWins ==
  [][(hist' # <<>> /\ hist'[1].t \in {"set_ok", "update_ok"} /\ now' = now) =>
       \A i \in StoreIds : Performed(i) => FromStr(file') = stores'[i].entries]_vars

C28_Witness ==
  /\ stores[1].loaded /\ stores[2].loaded
  /\ hist # <<>> /\ LastCall = "set_ok" /\ hist[1].args = <<"side", "codex-cli", "t2">>
  /\ DOMAIN stores[1].entries = {"main"}
  /\ EntryGetCliSessionId(stores[1].entries["main"], "claude-cli") = Some("t1")
  /\ DOMAIN stores[2].entries = {"side"}
  /\ FromStr(file) = stores[2].entries

(***************************************************************************)
(* Model alias normalization                                               *)
(***************************************************************************)
OpusNames == {"opus", "opus-4.5", "opus-4", "claude-opus-4-5"}
SonnetNames == {"sonnet", "sonnet-4.5", "sonnet-4.1", "claude-sonnet-4-5"}
HaikuNames == {"haiku", "haiku-3.5", "claude-haiku-3-5"}

\* C29: normalization lower-cases the name and maps each name of the synonym
\* table to its canonical short name ("opus-4.5" and "claude-opus-4-5" both to
\* "opus"), gives any other name lower-cased and otherwise unchanged, and is
\* idempotent.
C29_NormalizeAliases ==
  call.values # <<>> =>
    LET lower == ToLower(call.model)
    IN /\ lower \in OpusNames => call.values[1] = "opus"
       /\ lower \in SonnetNames => call.values[1] = "sonnet"
       /\ lower \in HaikuNames => call.values[1] = "haiku"
       /\ lower \notin OpusNames \cup SonnetNames \cup HaikuNames => call.values[1] = lower
       /\ \A k \in DOMAIN call.values : call.values[k] = call.values[1]

C29_Witness ==
  /\ call.model = "Claude-Opus-4-5"
  /\ Len(call.values) >= 2
  /\ call.values[1] = "opus" /\ call.values[2] = "opus"

(***************************************************************************)
(* The subprocess invocation                                               *)
(***************************************************************************)
\* how often a flag stands before the final prompt
FlagCount(args, flag) == Cardinality({i \in 1..(Len(args) - 1) : args[i] = flag})

\* C30: every invocation chat builds has exactly one of --resume and
\* --session-id: --resume with the slot's token when the slot held one when it
\* was read, --session-id otherwise; --model and --append-system-prompt stand
\* only in invocations with --session-id, --append-system-prompt only when the
\* messages have a System message; the prompt is the last argument.
C30_InvocationShape ==
  [][\A c \in Callers :
       (pc[c] = "read" /\ pc'[c] = "running") =>
         LET args == Last(hist').args
             messages == loc[c].messages
         IN /\ Last(hist').t = "invoke"
            /\ FlagCount(args, "--resume") + FlagCount(args, "--session-id") = 1
            /\ IsSome(slot) => HasPair(args, "--resume", Unwrap(slot))
            /\ slot = None => HasFlag(args, "--session-id")
            /\ HasFlag(args, "--model") => HasFlag(args, "--session-id")
            /\ HasFlag(args, "--append-system-prompt") =>
                 /\ HasFlag(args, "--session-id")
                 /\ \E i \in DOMAIN messages : messages[i].role = "system"
            /\ Last(args) = build_prompt_from_messages(messages)]_vars

C30_Witness ==
  /\ hist # <<>> /\ Last(hist).t = "invoke"
  /\ Last(hist).tok = Some("t1")
  /\ Last(hist).args = BaseArgs \o <<"--resume", "t1", "q2">>
  /\ \E i \in DOMAIN hist :
       /\ hist[i].t = "invoke" /\ hist[i].tok = None
       /\ HasPair(hist[i].args, "--append-system-prompt", "be brief")
       /\ FlagCount(hist[i].args, "--session-id") = 1

(***************************************************************************)
(* Slot and store                                                          *)
(***************************************************************************)
\* no store operation of the provider has failed so far
NoStoreFailure ==
  /\ file.kind # "unreadable"
  /\ \A i \in DOMAIN hist : hist[i].io \in {"ok", "none"}

\* C31: with no failing store write, whenever the slot's lock is free
\* the slot equals the token persisted for ("main", "claude-cli") in the file.
C31_SlotIsPersisted ==
  (lock = Free /\ NoStoreFailure) => slot = Reloaded(file)

\* the argument that follows a flag
ArgAfter(args, flag) == args[(CHOOSE i \in 1..(Len(args) - 1) : args[i] = flag) + 1]
\* the history begins with two chats that both read an empty slot before either
\* returned
BothReadEmpty ==
  /\ Len(hist) >= 2
  /\ hist[1].t = "invoke" /\ hist[1].tok = None
  /\ hist[2].t = "invoke" /\ hist[2].tok = None
\* both of them have returned Ok and nothing else has happened
BothCompleted ==
  /\ Len(hist) = 4
  /\ hist[3].t = "chat_ok" /\ hist[4].t = "chat_ok"
  /\ \A c \in Callers : pc[c] = "idle"

\* C32: two chats that both read an empty slot before either finishes both issue
\* new-session invocations (--session-id with different generated identifiers, no
\* --resume); after both complete the slot holds the token of the call that took
\* the lock last (calls that got no token do not take it).
C32_ConcurrentFirstTurns ==
  BothReadEmpty =>
    /\ \A i \in 1..2 : FlagCount(hist[i].args, "--session-id") = 1
                       /\ ~HasFlag(hist[i].args, "--resume")
    /\ ArgAfter(hist[1].args, "--session-id") # ArgAfter(hist[2].args, "--session-id")
    /\ BothCompleted =>
         slot = IF IsSome(hist[4].tok) THEN hist[4].tok ELSE hist[3].tok

C32_Witness ==
  /\ BothReadEmpty /\ BothCompleted
  /\ hist[3].tok = Some("t1") /\ hist[4].tok = Some("t2")
  /\ slot = Some("t2")

\* the step is a chat returning Ok without a token
ReturnsWithoutToken ==
  /\ Len(hist') = Len(hist) + 1
  /\ Last(hist').t = "chat_ok" /\ Last(hist').tok = None
\* the identifiers generated for --session-id so far
GeneratedIds ==
  {ArgAfter(hist[i].args, "--session-id") :
     i \in {j \in DOMAIN hist : hist[j].t = "invoke" /\ hist[j].tok = None}}
\* the strings the file holds as tokens
TokensInFile ==
  UNION {{e.cli_session_ids[p] : p \in DOMAIN e.cli_session_ids}
         \cup {e.claude_cli_session_id[i] : i \in DOMAIN e.claude_cli_session_id}
         : e \in EntriesSeenIn(FromStr(file))}

\* C33: a successful chat turn whose stdout yields no token leaves the slot and
\* the session store unchanged; the identifier generated for --session-id is never
\* stored, so on an empty slot the chat that follows is again a first turn with a
\* new generated identifier.
C33_NoTokenFrame ==
  /\ [][ReturnsWithoutToken => slot' = slot /\ file' = file]_vars
  /\ [](/\ \A g \in GeneratedIds : slot # Some(g) /\ g \notin TokensInFile
        /\ \A i \in 1..(Len(hist) - 2) :
             (/\ hist[i].t = "invoke" /\ hist[i].tok = None
              /\ hist[i + 1].t = "chat_ok" /\ hist[i + 1].tok = None
              /\ hist[i + 2].t = "invoke") =>
               /\ hist[i + 2].tok = None
               /\ IsFirstTurn(hist[i + 2].args)
               /\ ArgAfter(hist[i + 2].args, "--session-id")
                    # ArgAfter(hist[i].args, "--session-id"))

C33_Witness ==
  /\ Len(hist) = 3
  /\ hist[1].t = "invoke" /\ hist[1].tok = None
  /\ hist[2].t = "chat_ok" /\ hist[2].tok = None /\ hist[2].text = <<"{s#,S1}">>
  /\ hist[3].t = "invoke" /\ IsFirstTurn(hist[3].args)
  /\ ArgAfter(hist[3].args, "--session-id") # ArgAfter(hist[1].args, "--session-id")
  /\ slot = None /\ file = Missing

(***************************************************************************)
(* The end of the stream                                                   *)
(***************************************************************************)
\* C34: when the byte stream ends without error the sequence ends and the text
\* left in the buffer after the last newline is discarded: a final record that no
\* newline terminates gives no chunk.
C34_UnterminatedTailDropped ==
  (stream # <<>> /\ stream.ended /\ ~stream.failed) =>
    /\ Len(stream.out) <= LinesCompleted
    /\ stream.input = Unterminated =>
         /\ stream.out = <<HelThenLo[1]>>
         /\ stream.buffer = RecordLo

C34_Witness ==
  /\ stream # <<>> /\ stream.input = Unterminated
  /\ stream.ended /\ ~stream.failed
  /\ Len(stream.reads) = 2
  /\ stream.buffer = RecordLo
  /\ stream.out = <<OkItem(StreamChunk("Hel", FALSE))>>

====
